---- MODULE Spec2Model ----
(***************************************************************************)
(* GitConnect backend: the GitHub gateway.                                 *)
(*   lib/githubClient.ts  githubRequest: bounded retry, backoff, rate limit *)
(*   lib/cache.ts         InMemoryCache and buildCacheKey                   *)
(*   routes/github.ts     the gateway endpoints                             *)
(*   middleware/auth.ts   authenticateRequest                               *)
(* Optional values (T | null) are sets with at most one element: None is   *)
(* {} and a present value v is {v}.  Strings whose characters the code      *)
(* inspects (header values) are tuples of one-character strings.            *)
(***************************************************************************)
EXTENDS Integers, Sequences, FiniteSets, TLC

VARIABLES
    now,        \* Date.now(), in milliseconds
    call,       \* call[r]: the githubRequest invocation of request r (its locals)
    fetches,    \* fetches[r]: upstream HTTP requests issued by call[r] (history)
    log,        \* log[r]: per attempt, the response seen and when (history)
    sleeps,     \* sleeps[r]: per retry, the argument passed to sleep() (history)
    ticks,      \* clock steps taken so far (bounds the clock)
    store,      \* InMemoryCache.store: key -> [value, expiresAt]
    cacheHist,  \* per key the latest set not yet deleted, and the last get (history)
    keyIn,      \* cache-key construction: the two requests compared
    keyOut,     \* cache-key construction: what the endpoints computed for them
    gw,         \* gw[r]: the gateway request handled in slot r (its position)
    arrivals,   \* requests received so far (bounds the behaviour)
    users,      \* the User store: user id -> the token fields of the record
    env,        \* process.env: which secrets are configured
    judge,      \* the judgment request being handled (its position and history)
    vertex,     \* cachedModel and the Vertex settings of process.env
    githubIds,  \* the User store: user id -> the githubId column of the record
    logins,     \* logins[c]: the login callback handled in slot c (its position)
    sessions,   \* the session credentials jwt.sign has issued (history)
    served,     \* the response sent last, and what was known when it was asked (history)
    misses      \* the 2xx answers served as MISS: key, payload, when (history)

execVars == <<call, fetches, log, sleeps>>
clockVars == <<now, ticks>>
cacheVars == <<store, cacheHist>>
keyVars == <<keyIn, keyOut>>
gwVars == <<gw, arrivals, served, misses>>
authVars == <<users, env>>
judgeVars == <<judge, vertex>>
loginVars == <<githubIds, logins, sessions>>
vars == <<now, ticks, call, fetches, log, sleeps, store, cacheHist, keyIn, keyOut,
          gw, arrivals, served, misses, users, env, judge, vertex,
          githubIds, logins, sessions>>

(***************************************************************************)
(* Bounds of the model.                                                    *)
(***************************************************************************)
NumReqs == 2            \* request slots handled concurrently
MaxRetriesOpt == 2      \* largest maxRetries option a caller passes explicitly
MaxTicks == 2           \* clock steps besides the sleeps
MaxRequests == 2        \* requests the gateway receives in one behaviour

Reqs == 1..NumReqs

(***************************************************************************)
(* Program constants.                                                      *)
(***************************************************************************)
DEFAULT_MAX_RETRIES == 3
BASE_DELAY_MS == 300
JITTER_MS == 100

None == {}
Some(v) == {v}
The(o) == CHOOSE v \in o : TRUE
OrElse(o, d) == IF o = None THEN d ELSE The(o)      \* o ?? d

Max(a, b) == IF a >= b THEN a ELSE b
CeilDiv(a, b) == (a + b - 1) \div b                 \* Math.ceil(a / b), a >= 0, b > 0

RECURSIVE Pow2(_)
Pow2(n) == IF n <= 0 THEN 1 ELSE 2 * Pow2(n - 1)    \* 2 ** n

(***************************************************************************)
(* Number.parseInt(value, 10) on a string given as a tuple of characters:  *)
(* an optional sign, then the longest run of decimal digits; NaN (None)    *)
(* when there is no digit.                                                 *)
(***************************************************************************)
Digits == {"0", "1", "2", "3", "4", "5", "6", "7", "8", "9"}
DigitVal(c) ==
    CASE c = "0" -> 0 [] c = "1" -> 1 [] c = "2" -> 2 [] c = "3" -> 3
      [] c = "4" -> 4 [] c = "5" -> 5 [] c = "6" -> 6 [] c = "7" -> 7
      [] c = "8" -> 8 [] c = "9" -> 9

RECURSIVE DigitRun(_, _, _)
DigitRun(s, i, acc) ==
    IF i > Len(s) \/ s[i] \notin Digits THEN acc
    ELSE DigitRun(s, i + 1, 10 * acc + DigitVal(s[i]))

ParseInt10(s) ==
    LET neg == Len(s) >= 1 /\ s[1] = "-"
        start == IF Len(s) >= 1 /\ s[1] \in {"-", "+"} THEN 2 ELSE 1
    IN  IF start > Len(s) \/ s[start] \notin Digits THEN None
        ELSE Some((IF neg THEN -1 ELSE 1) * DigitRun(s, start, 0))

\* parseHeaderInt: null for an absent or empty header and for NaN
parseHeaderInt(value) ==
    IF value = None \/ The(value) = <<>> THEN None
    ELSE ParseInt10(The(value))

(***************************************************************************)
(* JSON.parse on the response bodies of the model.  Anything that is not   *)
(* JSON text throws (ok = FALSE).  Values are [t, v]: the JavaScript type  *)
(* and a token for the content.                                            *)
(***************************************************************************)
JNull == [t |-> "null", v |-> ""]
JUndefined == [t |-> "undefined", v |-> ""]
JString(s) == [t |-> "string", v |-> s]
JObject(s) == [t |-> "object", v |-> s]

JSONParse(raw) ==
    CASE raw = "[1]" -> [ok |-> TRUE, val |-> JObject("1")]
      [] raw = "[2]" -> [ok |-> TRUE, val |-> JObject("2")]
      [] raw = "{}" -> [ok |-> TRUE, val |-> JObject("")]
      [] raw = "null" -> [ok |-> TRUE, val |-> JNull]
      [] raw = "{\"message\":\"Not Found\"}" -> [ok |-> TRUE, val |-> JObject("message:Not Found")]
      [] raw = "{\"message\":\"\"}" -> [ok |-> TRUE, val |-> JObject("message:")]
      [] OTHER -> [ok |-> FALSE, val |-> JUndefined]

(***************************************************************************)
(* lib/githubClient.ts                                                     *)
(***************************************************************************)
\* Math.random() as a fraction of 1000; jitter = floor(random * maxJitter)
RandomSamples == {0, 999}

jitter(attempt, rnd) ==
    LET maxJitter == JITTER_MS * (attempt + 1)
    IN  (rnd * maxJitter) \div 1000

\* the computed value without Math.max(0, ...)
parseRateLimitUnfloored(headers, status, t) ==
    LET limit == parseHeaderInt(headers.limit)
        remaining == parseHeaderInt(headers.remaining)
        reset == parseHeaderInt(headers.reset)
        retryAfter == parseHeaderInt(headers.retryAfter)
        falsy(o) == o = None \/ o = Some(0)
    IN  [limit |-> limit, remaining |-> remaining, reset |-> reset,
         retryAfter |-> IF falsy(retryAfter) /\ ~falsy(reset) /\ status = 429
                        THEN Some(The(reset) - CeilDiv(t, 1000)) ELSE retryAfter,
         link |-> headers.link]

parseRateLimit(headers, status, t) ==
    LET limit == parseHeaderInt(headers.limit)
        remaining == parseHeaderInt(headers.remaining)
        reset == parseHeaderInt(headers.reset)
        retryAfter == parseHeaderInt(headers.retryAfter)
        falsy(o) == o = None \/ o = Some(0)
    IN  IF falsy(retryAfter) /\ ~falsy(reset) /\ status = 429
        THEN LET nowSec == CeilDiv(t, 1000)
                 delta == Max(0, The(reset) - nowSec)
             IN  [limit |-> limit, remaining |-> remaining, reset |-> reset,
                  retryAfter |-> Some(delta), link |-> headers.link]
        ELSE [limit |-> limit, remaining |-> remaining, reset |-> reset,
              retryAfter |-> retryAfter, link |-> headers.link]

isRateLimitStatusAny403(status, rateLimit) ==
    status = 429 \/ status = 403
isRateLimitStatus(status, rateLimit) ==
    \/ status = 429
    \/ status = 403 /\ rateLimit.remaining = Some(0)

shouldRetryAbove500(status) == status > 500 /\ status < 600
shouldRetry(status) == status >= 500 /\ status < 600

ResponseOk(status) == status >= 200 /\ status <= 299      \* Response.ok

\* the result record githubRequest builds from one upstream response
\* try { data = rawBody ? JSON.parse(rawBody) : null } catch { }: the
\* SyntaxError of JSON.parse is caught and data stays null; threw tells
\* whether an exception leaves the statement
JsonParseBodyUncaught(rawBody) ==
    [threw |-> rawBody # "" /\ ~JSONParse(rawBody).ok,
     data |-> IF rawBody # "" /\ JSONParse(rawBody).ok THEN JSONParse(rawBody).val ELSE JNull]
JsonParseBody(rawBody) ==
    [threw |-> FALSE,
     data |-> IF rawBody # "" /\ JSONParse(rawBody).ok THEN JSONParse(rawBody).val ELSE JNull]

BuildResult(resp, t) ==
    LET rawBody == resp.body
        data == JsonParseBody(rawBody).data
        ok == ResponseOk(resp.status)
    IN  [statusCode |-> resp.status,
         ok |-> ok,
         data |-> data,
         rawBody |-> IF rawBody = "" THEN None ELSE Some(rawBody),
         rateLimit |-> parseRateLimit(resp.headers, resp.status, t),
         githubError |-> IF ok THEN JUndefined
                         ELSE IF data # JNull THEN data ELSE JString(rawBody)]

EmptyRateLimit ==
    [limit |-> None, remaining |-> None, reset |-> None, retryAfter |-> None, link |-> None]

FallbackResult ==
    [statusCode |-> 0, ok |-> FALSE, data |-> JNull, rawBody |-> None,
     rateLimit |-> EmptyRateLimit, githubError |-> JUndefined]

NoCall ==
    [pc |-> "none", maxRetries |-> 0, attempt |-> 0, lastResponse |-> None,
     result |-> None, wakeAt |-> 0, failure |-> "none"]

NewCall(m) ==
    [pc |-> "loop", maxRetries |-> m, attempt |-> 0, lastResponse |-> None,
     result |-> None, wakeAt |-> 0, failure |-> "none"]

\* attempt += 1 at the end of an iteration that continues
NextAttemptStuck(a) == a
NextAttemptRestart(a) == 0
NextAttempt(a) == a + 1

\* the delay of the rate-limit branch and of the 5xx branch
RateLimitDelaySeconds(rateLimit, attempt, rnd) ==
    OrElse(rateLimit.retryAfter, 1) + jitter(attempt, rnd)
RateLimitDelay(rateLimit, attempt, rnd) ==
    OrElse(rateLimit.retryAfter, 1) * 1000 + jitter(attempt, rnd)

BackoffDelayTimes(attempt, rnd) ==
    BASE_DELAY_MS * 2 * attempt + jitter(attempt, rnd)
BackoffDelay(attempt, rnd) ==
    BASE_DELAY_MS * Pow2(attempt) + jitter(attempt, rnd)

\* what one iteration does with the response: "return" or "sleep"
Decide(status, rateLimit, attempt, maxRetries) ==
    IF ResponseOk(status) THEN "return"
    ELSE IF isRateLimitStatus(status, rateLimit)
         THEN IF attempt = maxRetries THEN "return" ELSE "sleepRateLimit"
    ELSE IF shouldRetry(status) /\ attempt < maxRetries THEN "sleepBackoff"
    ELSE "return"

\* One pass of the for loop up to its await of sleep or its return: the fetch
\* is issued, the response resp arrives and is read, and the branch is taken.
GithubAttempt(r, resp, rnd) ==
    LET c == call[r]
        result == BuildResult(resp, now)
        d == Decide(resp.status, result.rateLimit, c.attempt, c.maxRetries)
        ms == IF d = "sleepRateLimit"
              THEN RateLimitDelay(result.rateLimit, c.attempt, rnd)
              ELSE BackoffDelay(c.attempt, rnd)
    IN  /\ c.pc = "loop"
        /\ c.attempt <= c.maxRetries
        /\ fetches' = [fetches EXCEPT ![r] = @ + 1]
        /\ log' = [log EXCEPT ![r] = Append(@,
                      [status |-> resp.status, body |-> resp.body,
                       remaining |-> result.rateLimit.remaining,
                       retryAfter |-> result.rateLimit.retryAfter,
                       rateLimit |-> result.rateLimit,
                       attempt |-> c.attempt, at |-> now])]
        /\ IF JsonParseBody(resp.body).threw
           THEN \* an exception leaving the loop body rejects the promise
                /\ call' = [call EXCEPT ![r] =
                       [@ EXCEPT !.pc = "rejected", !.failure = "exception"]]
                /\ sleeps' = sleeps
           ELSE IF d = "return"
           THEN /\ call' = [call EXCEPT ![r] =
                       [@ EXCEPT !.pc = "returned", !.lastResponse = Some(result),
                                 !.result = Some(result)]]
                /\ sleeps' = sleeps
           ELSE /\ call' = [call EXCEPT ![r] =
                       [@ EXCEPT !.pc = "sleep", !.lastResponse = Some(result),
                                 !.wakeAt = now + Max(ms, 0)]]
                /\ sleeps' = [sleeps EXCEPT ![r] = Append(@,
                       [ms |-> ms, attempt |-> c.attempt, cause |-> d, at |-> now])]
        /\ UNCHANGED <<now, ticks, cacheVars, keyVars, gwVars, authVars, judgeVars, loginVars>>

\* fetch() or response.text() rejects: githubRequest rejects with that error
GithubTransportFail(r) ==
    /\ call[r].pc = "loop"
    /\ call[r].attempt <= call[r].maxRetries
    /\ fetches' = [fetches EXCEPT ![r] = @ + 1]
    /\ call' = [call EXCEPT ![r] = [@ EXCEPT !.pc = "rejected", !.failure = "transport"]]
    /\ UNCHANGED <<now, ticks, log, sleeps, cacheVars, keyVars, gwVars, authVars, judgeVars, loginVars>>

\* the timer of sleep(ms) fires, not before ms have passed; the loop continues
GithubSleepDone(r) ==
    /\ call[r].pc = "sleep"
    /\ now' = Max(now, call[r].wakeAt)
    /\ call' = [call EXCEPT ![r] =
           [@ EXCEPT !.pc = "loop", !.attempt = NextAttempt(@)]]
    /\ UNCHANGED <<ticks, fetches, log, sleeps, cacheVars, keyVars, gwVars, authVars, judgeVars, loginVars>>

\* the loop condition fails: return lastResponse ?? the zero result
GithubFallThrough(r) ==
    /\ call[r].pc = "loop"
    /\ call[r].attempt > call[r].maxRetries
    /\ call' = [call EXCEPT ![r] =
           [@ EXCEPT !.pc = "returned",
                     !.result = Some(OrElse(call[r].lastResponse, FallbackResult))]]
    /\ UNCHANGED <<now, ticks, fetches, log, sleeps, cacheVars, keyVars, gwVars, authVars, judgeVars, loginVars>>

(***************************************************************************)
(* Upstream responses.  Header values are strings (tuples of characters);  *)
(* an absent header is None.                                               *)
(***************************************************************************)
Hdr(s) == Some(s)

PlainHeaders ==
    [limit |-> Hdr(<<"6", "0">>), remaining |-> Hdr(<<"5">>),
     reset |-> Hdr(<<"1", "0", "3">>), retryAfter |-> None, link |-> None]

Upstream(status, body, headers) == [status |-> status, body |-> body, headers |-> headers]

\* 2xx, and failures that are neither 5xx nor rate limited
FinalResponses ==
    {Upstream(200, "[1]", PlainHeaders),
     Upstream(200, "<html>", PlainHeaders),
     Upstream(204, "", PlainHeaders),
     Upstream(304, "", PlainHeaders),
     Upstream(401, "{}", PlainHeaders),
     Upstream(403, "{}", PlainHeaders),
     Upstream(403, "{}", [PlainHeaders EXCEPT !.remaining = None]),
     Upstream(404, "{}", PlainHeaders),
     Upstream(422, "<html>", PlainHeaders)}

\* rate limited: 429, or 403 with x-ratelimit-remaining: 0
LimitedResponses ==
    {Upstream(403, "{}", [PlainHeaders EXCEPT !.remaining = Hdr(<<"0">>)]),
     Upstream(429, "{}", [PlainHeaders EXCEPT !.reset = None]),
     Upstream(429, "", PlainHeaders),
     Upstream(429, "{}", [PlainHeaders EXCEPT !.retryAfter = Hdr(<<"2">>)]),
     Upstream(429, "{}", [PlainHeaders EXCEPT !.reset = None,
                                              !.retryAfter = Hdr(<<"s", "o", "o", "n">>)])}

ServerErrorResponses ==
    {Upstream(500, "<html>", PlainHeaders),
     Upstream(503, "{}", [PlainHeaders EXCEPT !.retryAfter = Hdr(<<"2">>)])}

ExecResponses == FinalResponses \cup LimitedResponses \cup ServerErrorResponses

(***************************************************************************)
(* SpecExec: one call of githubRequest, in slot 1, for every maxRetries    *)
(* option in -1..MaxRetriesOpt and every sequence of upstream responses.   *)
(***************************************************************************)
\* no judgment request yet, no model handle built, the project id configured
NoJudgment ==
    [pc |-> "idle", seen |-> 0, target |-> {}, limits |-> {}, pending |-> {}, got |-> <<>>,
     calls |-> <<>>, context |-> {}, reply |-> {}, output |-> {}, failed |-> {}]
InitNoJudgment ==
    /\ judge = NoJudgment
    /\ vertex = [cachedModel |-> {}, projectId |-> {"p1"}, built |-> 0, reads |-> 0]
\* no login callback in flight, no session credential issued; the githubId
\* of a stored user
\* the slots of login callbacks handled concurrently
Callbacks == {1, 2}
GithubIdOf(uid) == <<"g", uid[2]>>
NoLogin ==
    [pc |-> "idle", seen |-> 0, tokens |-> {}, githubId |-> {}, found |-> {},
     status |-> 0, wrote |-> {}, created |-> FALSE, appToken |-> {}]
InitNoLogin ==
    /\ githubIds = [u \in DOMAIN users |-> GithubIdOf(u)]
    /\ logins = [c \in Callbacks |-> NoLogin]
    /\ sessions = {}
InitClock == now = 100000 /\ ticks = 0
InitNoCalls ==
    /\ call = [r \in Reqs |-> NoCall]
    /\ fetches = [r \in Reqs |-> 0]
    /\ log = [r \in Reqs |-> <<>>]
    /\ sleeps = [r \in Reqs |-> <<>>]
InitNoCache == store = <<>> /\ cacheHist = <<>>
InitNoKeys == keyIn = <<>> /\ keyOut = [kind |-> "none"]
\* What authenticateRequest holds for a request: the Authorization header,
\* the record findUnique returned and when, the user object (req.user), the
\* token for the handler (req.githubToken), what the refresh call returned
\* or threw, the update it built, refresh calls and User-store writes
\* issued, and the stored record as the update left it.
NoAuth ==
    [header |-> None, found |-> None, loadedAt |-> 0, user |-> None, githubToken |-> None,
     refreshed |-> None, threw |-> "none", tokenUpdate |-> None,
     refreshCalls |-> 0, writes |-> 0, persisted |-> None]
IdleSlot ==
    [pc |-> "idle", uid |-> None, rq |-> None, cacheKey |-> None,
     knownAtArrival |-> {}, knownAtLookup |-> {}, afterFailure |-> FALSE, auth |-> NoAuth,
     page |-> None]
NothingServed == [kind |-> "none"]
InitIdle ==
    /\ gw = [r \in Reqs |-> IdleSlot]
    /\ arrivals = 0
    /\ served = NothingServed
    /\ misses = {}

\* a User record's token fields
UserRecord(personalAccessToken, githubRefreshToken, tokenExpiresAt) ==
    [personalAccessToken |-> personalAccessToken,
     githubRefreshToken |-> githubRefreshToken,
     tokenExpiresAt |-> tokenExpiresAt]
Env(jwtSecret, oauthClient) == [jwtSecret |-> jwtSecret, oauthClient |-> oauthClient]

\* one user whose stored token does not expire, every secret configured
InitNoGateway ==
    /\ InitIdle
    /\ users = [u \in {<<"u", "1">>} |-> UserRecord(Some("gho_0"), None, None)]
    /\ env = Env(TRUE, TRUE)
    /\ InitNoLogin

InitExec ==
    /\ InitClock /\ InitNoCache /\ InitNoKeys /\ InitNoGateway
    /\ InitNoJudgment
    /\ \E m \in -1..MaxRetriesOpt :
          call = [r \in Reqs |-> IF r = 1 THEN NewCall(m) ELSE NoCall]
    /\ fetches = [r \in Reqs |-> 0]
    /\ log = [r \in Reqs |-> <<>>]
    /\ sleeps = [r \in Reqs |-> <<>>]

NextExec ==
    \/ \E resp \in ExecResponses, rnd \in RandomSamples : GithubAttempt(1, resp, rnd)
    \/ GithubTransportFail(1)
    \/ GithubSleepDone(1)
    \/ GithubFallThrough(1)

SpecExec == InitExec /\ [][NextExec]_vars

(***************************************************************************)
(* Claims about githubRequest, checked under SpecExec.  The predicates     *)
(* below classify a logged response by its status and parsed headers.      *)
(***************************************************************************)
EntryLimited(e) == e.status = 429 \/ (e.status = 403 /\ e.remaining = Some(0))
EntryServerError(e) == e.status >= 500 /\ e.status <= 599
EntryOk(e) == e.status >= 200 /\ e.status <= 299

\* C1: for every maxRetries >= 0 one call issues at most maxRetries + 1
\* upstream requests; rate-limit retries and 5xx retries draw on the same
\* attempt counter (the i-th retry of either kind follows attempt i - 1, and
\* there are at most maxRetries retries in all).
C1_AttemptsBounded ==
    \A r \in Reqs : call[r].maxRetries >= 0 =>
        /\ fetches[r] <= call[r].maxRetries + 1
        /\ Len(sleeps[r]) <= call[r].maxRetries
        /\ \A i \in 1..Len(sleeps[r]) : sleeps[r][i].attempt = i - 1

C1_Witness ==
    /\ call[1].pc = "returned"
    /\ call[1].maxRetries >= 2
    /\ fetches[1] = call[1].maxRetries + 1
    /\ \E i, j \in 1..Len(sleeps[1]) :
          sleeps[1][i].cause = "sleepRateLimit" /\ sleeps[1][j].cause = "sleepBackoff"

\* C2 (as amended): after a rate-limited response (429, or 403 with remaining
\* 0) on attempt a that is retried, the delay passed to sleep is r * 1000 ms
\* plus a jitter in [0, 100 * (a + 1)), where r is the snapshot's retryAfter,
\* or 1 when the snapshot has none; the next attempt starts at least r
\* seconds later.
C2_RateLimitDelay ==
    \A r \in Reqs : \A i \in 1..Len(sleeps[r]) :
        EntryLimited(log[r][i]) =>
            LET ra == OrElse(log[r][i].retryAfter, 1)
                ms == sleeps[r][i].ms
            IN  /\ ms >= ra * 1000
                /\ ms < ra * 1000 + 100 * i
                /\ i + 1 <= Len(log[r]) => log[r][i + 1].at - log[r][i].at >= ra * 1000

\* C2 as stated: the delay is retryAfter * 1000 ms plus jitter, retryAfter
\* being the value of the response's rate-limit snapshot.
C2_Original ==
    \A r \in Reqs : \A i \in 1..Len(sleeps[r]) :
        EntryLimited(log[r][i]) =>
            /\ log[r][i].retryAfter # None
            /\ LET ra == The(log[r][i].retryAfter)
                   ms == sleeps[r][i].ms
               IN  /\ ms >= ra * 1000
                   /\ ms < ra * 1000 + 100 * i
                   /\ i + 1 <= Len(log[r]) =>
                          log[r][i + 1].at - log[r][i].at >= ra * 1000

C2_Witness ==
    \E i \in 1..Len(sleeps[1]) :
        /\ log[1][i].status = 429
        /\ log[1][i].retryAfter = Some(2)
        /\ i + 1 <= Len(log[1])

\* C3 (as amended): after a 5xx response on attempt a that is retried, the
\* sleep is at least 300 * 2^a ms and less than 300 * 2^a + 100 * (a + 1) ms,
\* and the next attempt starts no sooner; so the lower bound doubles from one
\* attempt to the next and every later 5xx backoff is longer than an earlier
\* one (with jitter, not necessarily twice as long).
C3_BackoffBounds ==
    \A r \in Reqs : \A i \in 1..Len(sleeps[r]) :
        EntryServerError(log[r][i]) =>
            LET a == i - 1
                ms == sleeps[r][i].ms
            IN  /\ ms >= 300 * Pow2(a)
                /\ ms < 300 * Pow2(a) + 100 * (a + 1)
                /\ i + 1 <= Len(log[r]) => log[r][i + 1].at - log[r][i].at >= ms
                /\ \A j \in 1..Len(sleeps[r]) :
                      (j > i /\ EntryServerError(log[r][j])) => sleeps[r][j].ms > ms

\* C3 as stated: the same bounds, and successive 5xx backoffs at least double.
C3_Original ==
    \A r \in Reqs : \A i \in 1..Len(sleeps[r]) :
        EntryServerError(log[r][i]) =>
            LET a == i - 1
                ms == sleeps[r][i].ms
            IN  /\ ms >= 300 * Pow2(a)
                /\ ms < 300 * Pow2(a) + 100 * (a + 1)
                /\ (i + 1 <= Len(sleeps[r]) /\ EntryServerError(log[r][i + 1])) =>
                       sleeps[r][i + 1].ms >= 2 * ms

C3_Witness ==
    \E i \in 1..Len(sleeps[1]) :
        /\ i + 2 <= Len(log[1])
        /\ EntryServerError(log[1][i])
        /\ EntryServerError(log[1][i + 1])
        /\ sleeps[1][i].ms = 300 * Pow2(i - 1) + 100 * i - 1

\* C4: a result that is 5xx or rate limited is returned only after exactly
\* maxRetries + 1 attempts, every earlier one of them 5xx or rate limited.
C4_TransientOnlyWhenExhausted ==
    \A r \in Reqs :
        (call[r].pc = "returned" /\ call[r].result # None) =>
            LET res == The(call[r].result)
                e == [status |-> res.statusCode, remaining |-> res.rateLimit.remaining]
            IN  (EntryServerError(e) \/ EntryLimited(e)) =>
                    /\ fetches[r] = call[r].maxRetries + 1
                    /\ Len(log[r]) = call[r].maxRetries + 1
                    /\ \A i \in 1..Len(log[r]) :
                          EntryServerError(log[r][i]) \/ EntryLimited(log[r][i])

C4_Witness ==
    /\ call[1].pc = "returned"
    /\ call[1].maxRetries >= 2
    /\ The(call[1].result).statusCode = 500
    /\ \E i \in 1..Len(log[1]) : log[1][i].status = 429

\* C5: a non-2xx response that is neither 5xx nor rate limited ends the call
\* at once: it is the last response, it is returned with ok = FALSE, no sleep
\* follows it and no further upstream request is issued.
C5_PermanentFailureReturnsAtOnce ==
    \A r \in Reqs : \A i \in 1..Len(log[r]) :
        LET e == log[r][i]
        IN  (~EntryOk(e) /\ ~EntryServerError(e) /\ ~EntryLimited(e)) =>
                /\ i = Len(log[r])
                /\ fetches[r] = i
                /\ Len(sleeps[r]) = i - 1
                /\ call[r].pc = "returned"
                /\ call[r].result # None
                /\ The(call[r].result).statusCode = e.status
                /\ The(call[r].result).ok = FALSE

C5_Witness ==
    /\ call[1].maxRetries = 2
    /\ Len(log[1]) = 2
    /\ log[1][2].status = 403
    /\ log[1][2].remaining = Some(5)
    /\ call[1].pc = "returned"

(***************************************************************************)
(* lib/cache.ts: InMemoryCache.  The Map is a function whose domain is the *)
(* set of keys present.                                                    *)
(***************************************************************************)
DEFAULT_TTL_MS == 60000

\* entry.expiresAt <= Date.now()
ExpiredOffByOne(entry, t) == entry.expiresAt < t
Expired(entry, t) == entry.expiresAt <= t

MapSet(m, key, val) == [k \in DOMAIN m \cup {key} |-> IF k = key THEN val ELSE m[k]]
MapDelete(m, key) == [k \in DOMAIN m \ {key} |-> m[k]]

\* a set that assigned the fields of an existing entry one by one and was
\* interrupted would leave the old data under the new status and meta
CacheSetFieldwise(st, key, value, ttlMs, t) ==
    MapSet(st, key,
           [value |-> IF key \in DOMAIN st
                      THEN [value EXCEPT !.data = st[key].value.data] ELSE value,
            expiresAt |-> t + OrElse(ttlMs, DEFAULT_TTL_MS)])

\* set(key, value, options): ttlMs = options.ttlMs ?? DEFAULT_TTL_MS
CacheSet(st, key, value, ttlMs, t) ==
    MapSet(st, key, [value |-> value, expiresAt |-> t + OrElse(ttlMs, DEFAULT_TTL_MS)])

\* get(key): the value returned (None for null) and the store afterwards
CacheGet(st, key, t) ==
    IF key \notin DOMAIN st THEN [value |-> None, store |-> st]
    ELSE IF Expired(st[key], t) THEN [value |-> None, store |-> MapDelete(st, key)]
    ELSE [value |-> Some(st[key].value), store |-> st]

CacheDelete(st, key) == MapDelete(st, key)

CacheClear(st) == <<>>

(***************************************************************************)
(* SpecCache: every sequence of set, get, delete and clear on two keys,    *)
(* with the clock stepping between them.                                   *)
(***************************************************************************)
CacheKeys == {<<"m", "e", ":", ":", "u", "1">>, <<"m", "e", ":", ":", "u", "2">>}
CacheValues == {"v1", "v2"}
CacheTtls == {None, Some(30000)}
ClockSteps == {1, 29999}

Tick(d) ==
    /\ ticks < MaxTicks
    /\ ticks' = ticks + 1
    /\ now' = now + d
    /\ UNCHANGED <<execVars, cacheVars, keyVars, gwVars, authVars, judgeVars, loginVars>>

DoSet(key, value, ttlMs) ==
    /\ store' = CacheSet(store, key, value, ttlMs, now)
    /\ cacheHist' = [cacheHist EXCEPT !.lastSet = MapSet(@, key,
           [value |-> value, at |-> now, ttl |-> OrElse(ttlMs, 60000)])]
    /\ UNCHANGED <<clockVars, execVars, keyVars, gwVars, authVars, judgeVars, loginVars>>

DoGet(key) ==
    LET got == CacheGet(store, key, now)
    IN  /\ store' = got.store
        /\ cacheHist' = [cacheHist EXCEPT !.lastGet = Some(
               [key |-> key, value |-> got.value, at |-> now,
                latest |-> IF key \in DOMAIN cacheHist.lastSet
                           THEN Some(cacheHist.lastSet[key]) ELSE None,
                presentAfter |-> key \in DOMAIN got.store])]
        /\ UNCHANGED <<clockVars, execVars, keyVars, gwVars, authVars, judgeVars, loginVars>>

DoDelete(key) ==
    /\ store' = CacheDelete(store, key)
    /\ cacheHist' = [cacheHist EXCEPT !.lastSet = MapDelete(@, key)]
    /\ UNCHANGED <<clockVars, execVars, keyVars, gwVars, authVars, judgeVars, loginVars>>

DoClear ==
    /\ store' = CacheClear(store)
    /\ cacheHist' = [cacheHist EXCEPT !.lastSet = <<>>]
    /\ UNCHANGED <<clockVars, execVars, keyVars, gwVars, authVars, judgeVars, loginVars>>

InitCache ==
    /\ InitClock /\ InitNoCalls /\ InitNoKeys /\ InitNoGateway
    /\ InitNoJudgment
    /\ store = <<>>
    /\ cacheHist = [lastSet |-> <<>>, lastGet |-> None]

NextCache ==
    \/ \E d \in ClockSteps : Tick(d)
    \/ \E k \in CacheKeys, v \in CacheValues, ttl \in CacheTtls : DoSet(k, v, ttl)
    \/ \E k \in CacheKeys : DoGet(k)
    \/ \E k \in CacheKeys : DoDelete(k)
    \/ DoClear

SpecCache == InitCache /\ [][NextCache]_vars

\* C7: get(key) at time t returns a value only if the latest set(key, v, ttl)
\* not followed by delete or clear happened at s with t < s + ttl, and then it
\* returns v; a get at t >= s + ttl (or with no such set) returns nothing and
\* leaves no entry for the key.
C7_NeverReturnedPastExpiry ==
    cacheHist.lastGet # None =>
        LET g == The(cacheHist.lastGet)
            live == g.latest # None /\ g.at < The(g.latest).at + The(g.latest).ttl
        IN  /\ g.value # None => (live /\ g.value = Some(The(g.latest).value))
            /\ ~live => (g.value = None /\ ~g.presentAfter)

\* a get exactly at the expiry instant of an entry that was stored
C7_Witness ==
    /\ cacheHist.lastGet # None
    /\ LET g == The(cacheHist.lastGet)
       IN  /\ g.latest # None
           /\ The(g.latest).ttl = 30000
           /\ g.at = The(g.latest).at + 30000
           /\ g.value = None

(***************************************************************************)
(* Strings the code builds or compares character by character are tuples   *)
(* of one-character strings.                                               *)
(***************************************************************************)
S_page == <<"p", "a", "g", "e">>
S_per_page == <<"p", "e", "r", "_", "p", "a", "g", "e">>
S_type == <<"t", "y", "p", "e">>
S_sort == <<"s", "o", "r", "t">>
S_direction == <<"d", "i", "r", "e", "c", "t", "i", "o", "n">>
S_visibility == <<"v", "i", "s", "i", "b", "i", "l", "i", "t", "y">>
S_sha == <<"s", "h", "a">>
S_path == <<"p", "a", "t", "h">>
S_author == <<"a", "u", "t", "h", "o", "r">>
S_since == <<"s", "i", "n", "c", "e">>
S_until == <<"u", "n", "t", "i", "l">>
S_state == <<"s", "t", "a", "t", "e">>
S_labels == <<"l", "a", "b", "e", "l", "s">>
S_head == <<"h", "e", "a", "d">>
S_base == <<"b", "a", "s", "e">>
S_all == <<"a", "l", "l">>
S_owner == <<"o", "w", "n", "e", "r">>
S_member == <<"m", "e", "m", "b", "e", "r">>
S_created == <<"c", "r", "e", "a", "t", "e", "d">>
S_updated == <<"u", "p", "d", "a", "t", "e", "d">>
S_pushed == <<"p", "u", "s", "h", "e", "d">>
S_full_name == <<"f", "u", "l", "l", "_", "n", "a", "m", "e">>
S_asc == <<"a", "s", "c">>
S_desc == <<"d", "e", "s", "c">>
S_public == <<"p", "u", "b", "l", "i", "c">>
S_private == <<"p", "r", "i", "v", "a", "t", "e">>
S_open == <<"o", "p", "e", "n">>
S_closed == <<"c", "l", "o", "s", "e", "d">>
S_popularity == <<"p", "o", "p", "u", "l", "a", "r", "i", "t", "y">>
S_me == <<"m", "e">>
S_meRepos == <<"m", "e", "R", "e", "p", "o", "s">>
S_repo == <<"r", "e", "p", "o">>
S_commits == <<"c", "o", "m", "m", "i", "t", "s">>
S_issues == <<"i", "s", "s", "u", "e", "s">>
S_pulls == <<"p", "u", "l", "l", "s">>
S_main == <<"m", "a", "i", "n">>
S_bug == <<"b", "u", "g">>
S_long_running == <<"l", "o", "n", "g", "-", "r", "u", "n", "n", "i", "n", "g">>

DigitChar(d) == CHOOSE c \in Digits : DigitVal(c) = d

RECURSIVE NatChars(_)
NatChars(n) == IF n < 10 THEN <<DigitChar(n)>> ELSE NatChars(n \div 10) \o <<DigitChar(n % 10)>>

\* String(n), and JSON.stringify(n), of an integer
NumChars(n) == IF n < 0 THEN <<"-">> \o NatChars(-n) ELSE NatChars(n)

\* a number as its floor and whether it has a fractional part
Num(whole, frac) == [whole |-> whole, frac |-> frac]

\* the value of the sign and the digits and dots of a decimal literal
Signed(neg, mag, frac) ==
    IF ~neg THEN Some(Num(mag, frac))
    ELSE IF frac THEN Some(Num(-mag - 1, TRUE))
    ELSE Some(Num(-mag, FALSE))
DecimalParts(neg, body, dots, digitsAt) ==
    IF Cardinality(dots) > 1 \/ digitsAt = {} \/ digitsAt \cup dots # 1..Len(body)
    THEN None
    ELSE Signed(neg, DigitRun(body, 1, 0),
                \E i \in digitsAt, d \in dots : i > d /\ body[i] # "0")
DecimalValue(neg, body) ==
    DecimalParts(neg, body, {i \in 1..Len(body) : body[i] = "."},
                 {i \in 1..Len(body) : body[i] \in Digits})

\* Number(s) of a query-string value written as a decimal literal: 0 for "",
\* the value of an optionally signed "digits", "digits.digits", "digits."
\* or ".digits", NaN (None) otherwise
ToNumber(s) ==
    IF s = <<>> THEN Some(Num(0, FALSE))
    ELSE DecimalValue(s[1] = "-", IF s[1] \in {"-", "+"} THEN Tail(s) ELSE s)

\* comparisons of a number with an integer bound
NumGreater(x, k) == x.whole > k \/ (x.whole = k /\ x.frac)
NumAtLeast(x, k) == x.whole >= k
NumAtMost(x, k) == x.whole < k \/ (x.whole = k /\ ~x.frac)

\* JavaScript values of a query object: [t, n, s]
QNum(n) == [t |-> "number", n |-> n, s |-> <<>>]
QStr(s) == [t |-> "string", n |-> 0, s |-> s]
QUndefined == [t |-> "undefined", n |-> 0, s |-> <<>>]

\* An object is the sequence of its [key, val] entries in property order.
Entry(k, v) == [key |-> k, val |-> v]
HasKey(obj, k) == \E i \in 1..Len(obj) : obj[i].key = k
Lookup(obj, k) == obj[CHOOSE i \in 1..Len(obj) : obj[i].key = k].val

\* the entries whose value is none of the values in drop, in order
RECURSIVE FilterEntries(_, _)
FilterEntries(obj, drop) ==
    IF obj = <<>> THEN <<>>
    ELSE (IF Head(obj).val \in drop THEN <<>> ELSE <<Head(obj)>>)
         \o FilterEntries(Tail(obj), drop)

(***************************************************************************)
(* validators/github.schema.ts.  A schema is the sequence of its fields in *)
(* shape order; zod builds its output in that order and strips keys the    *)
(* shape does not declare.                                                 *)
(***************************************************************************)
Field(key, kind, values, def) == [key |-> key, kind |-> kind, values |-> values, def |-> def]

paginationBase ==
    <<Field(S_page, "positiveInt", {}, Some(QNum(1))),
      Field(S_per_page, "perPage", {}, Some(QNum(30)))>>

githubRepoParamsSchema ==
    <<Field(S_owner, "requiredString1", {}, None),
      Field(S_repo, "requiredString1", {}, None)>>

githubMeReposQuerySchema ==
    paginationBase \o
    <<Field(S_type, "enum", {S_all, S_owner, S_member}, Some(QStr(S_all))),
      Field(S_sort, "enum", {S_created, S_updated, S_pushed, S_full_name}, None),
      Field(S_direction, "enum", {S_asc, S_desc}, None),
      Field(S_visibility, "enum", {S_all, S_public, S_private}, None)>>

githubRepoListQuerySchema ==
    paginationBase \o
    <<Field(S_sha, "string1", {}, None),
      Field(S_path, "string", {}, None),
      Field(S_author, "string", {}, None),
      Field(S_since, "string", {}, None),
      Field(S_until, "string", {}, None)>>

githubIssueListQuerySchema ==
    paginationBase \o
    <<Field(S_state, "enum", {S_open, S_closed, S_all}, Some(QStr(S_open))),
      Field(S_labels, "string", {}, None)>>

githubPullListQuerySchema ==
    paginationBase \o
    <<Field(S_state, "enum", {S_open, S_closed, S_all}, Some(QStr(S_open))),
      Field(S_head, "string", {}, None),
      Field(S_base, "string", {}, None),
      Field(S_sort, "enum", {S_created, S_updated, S_popularity, S_long_running}, None),
      Field(S_direction, "enum", {S_asc, S_desc}, None)>>

\* the checks of a z.coerce.number() chain on the coerced value: NaN is
\* one issue and ends the field; otherwise every check runs and each one
\* that fails adds its own issue
NumberIssues(n, lower, lowerExclusive, upper) ==
    IF n = None THEN <<"nan">>
    ELSE (IF The(n).frac THEN <<"int">> ELSE <<>>)
         \o (IF lowerExclusive /\ ~NumGreater(The(n), lower) THEN <<"positive">> ELSE <<>>)
         \o (IF ~lowerExclusive /\ ~NumAtLeast(The(n), lower) THEN <<"min">> ELSE <<>>)
         \o (IF upper # None /\ ~NumAtMost(The(n), The(upper)) THEN <<"max">> ELSE <<>>)

\* the outcome of one field: [ok, val, issues]; val is QUndefined for an
\* optional field that is absent and has no default, and issues are the
\* messages of the checks the value fails
Good(v) == [ok |-> TRUE, val |-> v, issues |-> <<>>]
Bad(msgs) == [ok |-> FALSE, val |-> QUndefined, issues |-> msgs]
NumberOutcome(n, msgs) == IF msgs = <<>> THEN Good(QNum(The(n).whole)) ELSE Bad(msgs)
NumberField(n, lower, lowerExclusive, upper) ==
    NumberOutcome(n, NumberIssues(n, lower, lowerExclusive, upper))

\* a field that is present with the raw value raw
ParseRaw(f, raw) ==
    CASE f.kind = "positiveInt" -> NumberField(ToNumber(raw), 0, TRUE, None)
      [] f.kind = "perPage" -> NumberField(ToNumber(raw), 1, FALSE, Some(100))
      [] f.kind = "enum" -> IF raw \in f.values THEN Good(QStr(raw)) ELSE Bad(<<"enum">>)
      [] f.kind \in {"string1", "requiredString1"} ->
             IF Len(raw) >= 1 THEN Good(QStr(raw)) ELSE Bad(<<"string_min">>)
      [] OTHER -> Good(QStr(raw))

\* one field of a schema on the raw input object
ParseField(f, input) ==
    IF ~HasKey(input, f.key)
    THEN (IF f.kind = "requiredString1"
          THEN Bad(<<"required">>)
          ELSE Good(OrElse(f.def, QUndefined)))
    ELSE ParseRaw(f, Lookup(input, f.key))

\* issue.path.join('.') and issue.message of the issues of one field
IssuesOf(key, msgs) == [i \in 1..Len(msgs) |-> [path |-> key, message |-> msgs[i]]]

RECURSIVE ParseFields(_, _)
ParseFields(schema, input) ==
    IF schema = <<>> THEN [data |-> <<>>, issues |-> <<>>]
    ELSE LET f == Head(schema)
             one == ParseField(f, input)
             rest == ParseFields(Tail(schema), input)
         IN  [data |-> (IF one.ok /\ one.val # QUndefined
                        THEN <<Entry(f.key, one.val)>> ELSE <<>>) \o rest.data,
              issues |-> IssuesOf(f.key, one.issues) \o rest.issues]

\* parseZod: the parsed object, or the INVALID_PARAMS error with its issues
parseZodAccepting(schema, input) ==
    [ok |-> TRUE, data |-> ParseFields(schema, input).data, issues |-> <<>>]
\* a z.object(...).passthrough() would keep the keys the shape does not declare
SchemaKeys(schema) == {schema[i].key : i \in 1..Len(schema)}
Undeclared(schema, input) ==
    SelectSeq(input, LAMBDA e : e.key \notin SchemaKeys(schema))
parseZodPassthrough(schema, input) ==
    LET res == ParseFields(schema, input)
    IN  [ok |-> res.issues = <<>>,
         data |-> res.data \o [i \in 1..Len(Undeclared(schema, input)) |->
                                  Entry(Undeclared(schema, input)[i].key,
                                        QStr(Undeclared(schema, input)[i].val))],
         issues |-> res.issues]
parseZod(schema, input) ==
    LET res == ParseFields(schema, input)
    IN  [ok |-> res.issues = <<>>, data |-> res.data, issues |-> res.issues]

(***************************************************************************)
(* routes/github.ts: the forwarded query and the cache key.                *)
(***************************************************************************)
toGitHubQuery(params) == FilterEntries(params, {QUndefined, QStr(<<>>)})

\* a.localeCompare(b) < 0 on the schema's keys (lower-case letters, digits
\* and "_"): by collation order "_" < digits < letters, character by character
CollationOrder ==
    <<"_", "-", "0", "1", "2", "3", "4", "5", "6", "7", "8", "9",
      "a", "b", "c", "d", "e", "f", "g", "h", "i", "j", "k", "l", "m",
      "n", "o", "p", "q", "r", "s", "t", "u", "v", "w", "x", "y", "z">>
Rank(c) == CHOOSE i \in 1..Len(CollationOrder) : CollationOrder[i] = c

RECURSIVE LocaleLess(_, _)
LocaleLess(a, b) ==
    IF b = <<>> THEN FALSE
    ELSE IF a = <<>> THEN TRUE
    ELSE IF Rank(Head(a)) # Rank(Head(b)) THEN Rank(Head(a)) < Rank(Head(b))
    ELSE LocaleLess(Tail(a), Tail(b))

\* Array.prototype.sort by key (stable: an entry goes after its equals)
RECURSIVE InsertSorted(_, _)
InsertSorted(sorted, e) ==
    IF sorted = <<>> THEN <<e>>
    ELSE IF LocaleLess(e.key, Head(sorted).key) THEN <<e>> \o sorted
    ELSE <<Head(sorted)>> \o InsertSorted(Tail(sorted), e)

RECURSIVE SortByKey(_)
SortByKey(obj) ==
    IF obj = <<>> THEN <<>>
    ELSE InsertSorted(SortByKey(SubSeq(obj, 1, Len(obj) - 1)), obj[Len(obj)])

\* JSON.stringify of a string: quoted, with " and \ escaped
RECURSIVE EscapeChars(_)
EscapeChars(s) ==
    IF s = <<>> THEN <<>>
    ELSE (IF Head(s) \in {"\"", "\\"} THEN <<"\\", Head(s)>> ELSE <<Head(s)>>)
         \o EscapeChars(Tail(s))

JsonString(s) == <<"\"">> \o EscapeChars(s) \o <<"\"">>

JsonValue(v) == IF v.t = "number" THEN NumChars(v.n) ELSE JsonString(v.s)

RECURSIVE JsonMembers(_)
JsonMembers(obj) ==
    IF obj = <<>> THEN <<>>
    ELSE JsonString(Head(obj).key) \o <<":">> \o JsonValue(Head(obj).val)
         \o (IF Len(obj) > 1 THEN <<",">> ELSE <<>>) \o JsonMembers(Tail(obj))

\* JSON.stringify of an object whose values are numbers and strings
JsonStringify(obj) == <<"{">> \o JsonMembers(obj) \o <<"}">>

serializeQueryUnsorted(query) == JsonStringify(FilterEntries(query, {QUndefined}))
serializeQuery(query) ==
    LET sortedEntries == SortByKey(FilterEntries(query, {QUndefined}))
    IN  JsonStringify(sortedEntries)

\* lib/cache.ts buildCacheKey: parts.map(String).join('::'), "_" for null
RECURSIVE buildCacheKey(_)
buildCacheKey(parts) ==
    IF parts = <<>> THEN <<>>
    ELSE OrElse(Head(parts), <<"_">>)
         \o (IF Len(parts) > 1 THEN <<":", ":">> ELSE <<>>) \o buildCacheKey(Tail(parts))

\* the schemas of an endpoint: path parameters and query (<<>>: none parsed)
HasParams(endpoint) == endpoint \in {"repo", "commits", "issues", "pulls"}
HasQuery(endpoint) == endpoint \in {"meRepos", "commits", "issues", "pulls"}
QuerySchema(endpoint) ==
    CASE endpoint = "meRepos" -> githubMeReposQuerySchema
      [] endpoint = "commits" -> githubRepoListQuerySchema
      [] endpoint = "issues" -> githubIssueListQuerySchema
      [] endpoint = "pulls" -> githubPullListQuerySchema
      [] OTHER -> <<>>
CacheTag(endpoint) ==
    CASE endpoint = "me" -> S_me [] endpoint = "meRepos" -> S_meRepos
      [] endpoint = "repo" -> S_repo [] endpoint = "commits" -> S_commits
      [] endpoint = "issues" -> S_issues [] endpoint = "pulls" -> S_pulls

\* What a handler computes before the cache lookup: validation of req.params
\* and req.query, the forwarded query and the cache key.
Prepare(rq, userId) ==
    LET params == IF HasParams(rq.endpoint)
                  THEN parseZod(githubRepoParamsSchema, rq.params)
                  ELSE [ok |-> TRUE, data |-> <<>>, issues |-> <<>>]
        query == IF HasQuery(rq.endpoint) /\ params.ok
                 THEN parseZod(QuerySchema(rq.endpoint), rq.query)
                 ELSE [ok |-> TRUE, data |-> <<>>, issues |-> <<>>]
        filteredQuery == toGitHubQuery(query.data)
        pathParts == IF HasParams(rq.endpoint) /\ params.ok
                     THEN <<Some(Lookup(params.data, S_owner).s),
                            Some(Lookup(params.data, S_repo).s)>>
                     ELSE <<>>
        queryParts == IF HasQuery(rq.endpoint)
                      THEN <<Some(serializeQuery(filteredQuery))>> ELSE <<>>
    IN  [ok |-> params.ok /\ query.ok,
         issues |-> IF params.ok THEN query.issues ELSE params.issues,
         params |-> params.data,
         query |-> query.data,
         filteredQuery |-> filteredQuery,
         cacheKey |-> buildCacheKey(
             <<Some(CacheTag(rq.endpoint)), Some(userId)>> \o pathParts \o queryParts)]

(***************************************************************************)
(* SpecKey: cache-key construction on pairs of requests.  A request is     *)
(* [endpoint, params, query]: req.params and req.query as objects of raw   *)
(* strings, in arrival order.                                              *)
(***************************************************************************)
Rq(endpoint, params, query) == [endpoint |-> endpoint, params |-> params, query |-> query]
PathOf(owner, repo) == <<Entry(S_owner, owner), Entry(S_repo, repo)>>

UserIds == {<<"u", "1">>, <<"u", "2">>}

RepoPaths ==
    {PathOf(<<"a">>, <<"c">>),
     PathOf(<<"a", ":", ":", "b">>, <<"c">>),
     PathOf(<<"a">>, <<"b", ":", ":", "c">>)}

MeReposQueries ==
    {<<>>,
     <<Entry(S_page, <<"0", "2">>)>>,
     <<Entry(S_page, <<"2">>), Entry(S_type, S_owner)>>,
     <<Entry(S_type, S_owner), Entry(S_page, <<"2">>)>>,
     <<Entry(S_sort, S_created), Entry(S_type, S_owner), Entry(S_page, <<"2">>)>>,
     <<Entry(S_page, <<"2">>), Entry(S_sort, S_created), Entry(S_type, S_owner)>>,
     <<Entry(S_per_page, <<"0">>)>>}

CommitsQueries ==
    {<<Entry(S_sha, S_main)>>,
     <<Entry(S_path, <<>>)>>,
     <<Entry(S_per_page, <<"5">>), Entry(S_page, <<"2">>)>>,
     <<Entry(S_page, <<"2">>), Entry(S_per_page, <<"5">>)>>}

IssuesQueries ==
    {<<>>,
     <<Entry(S_labels, S_bug), Entry(S_state, S_closed)>>,
     <<Entry(S_state, S_closed), Entry(S_labels, S_bug)>>}

PullsQueries ==
    {<<Entry(S_state, S_closed)>>,
     <<Entry(S_base, S_main)>>,
     <<Entry(S_head, S_main)>>}

KeyRequests ==
    {Rq("me", <<>>, <<>>)}
    \cup {Rq("meRepos", <<>>, q) : q \in MeReposQueries}
    \cup {Rq("repo", p, <<>>) : p \in RepoPaths}
    \cup {Rq("commits", PathOf(<<"a">>, <<"c">>), q) : q \in CommitsQueries}
    \cup {Rq("issues", PathOf(<<"a">>, <<"c">>), q) : q \in IssuesQueries}
    \cup {Rq("pulls", PathOf(<<"a">>, <<"c">>), q) : q \in PullsQueries}

Orderings(n) == {f \in [1..n -> 1..n] : \A i, j \in 1..n : f[i] = f[j] => i = j}
PermuteSeq(seq, f) == [i \in 1..Len(seq) |-> seq[f[i]]]

\* two requests each reach the cache-key construction of their endpoint
ComparePair ==
    /\ keyOut.kind = "none"
    /\ keyOut' = [kind |-> "pair",
                  a |-> Prepare(keyIn.a.rq, keyIn.a.uid),
                  b |-> Prepare(keyIn.b.rq, keyIn.b.uid)]
    /\ UNCHANGED <<keyIn, clockVars, execVars, cacheVars, gwVars, authVars, judgeVars, loginVars>>

\* serializeQuery on the forwarded query with its properties in another order
PermuteQuery ==
    /\ keyOut.kind = "none"
    /\ keyIn.a = keyIn.b
    /\ \E filteredQuery \in {Prepare(keyIn.a.rq, keyIn.a.uid).filteredQuery} :
          \E f \in Orderings(Len(filteredQuery)) :
             keyOut' = [kind |-> "perm",
                        query |-> filteredQuery,
                        permuted |-> PermuteSeq(filteredQuery, f),
                        ser |-> serializeQuery(filteredQuery),
                        serPermuted |-> serializeQuery(PermuteSeq(filteredQuery, f))]
    /\ UNCHANGED <<keyIn, clockVars, execVars, cacheVars, gwVars, authVars, judgeVars, loginVars>>

InitKey ==
    /\ InitClock /\ InitNoCalls /\ InitNoCache /\ InitNoGateway
    /\ InitNoJudgment
    /\ \E ua, ub \in UserIds, ra, rb \in KeyRequests :
          keyIn = [a |-> [uid |-> ua, rq |-> ra], b |-> [uid |-> ub, rq |-> rb]]
    /\ keyOut = [kind |-> "none"]

NextKey ==
    \/ ComparePair
    \/ PermuteQuery

SpecKey == InitKey /\ [][NextKey]_vars

EntrySet(obj) == {obj[i] : i \in 1..Len(obj)}

\* C8: two requests that pass validation and differ in identity, endpoint,
\* path parameters or the value of a forwarded query parameter get different
\* cache keys.
C8_DistinctRequestsDistinctKeys ==
    (/\ keyOut.kind = "pair" /\ keyOut.a.ok /\ keyOut.b.ok
     /\ \/ keyIn.a.uid # keyIn.b.uid
        \/ keyIn.a.rq.endpoint # keyIn.b.rq.endpoint
        \/ keyOut.a.params # keyOut.b.params
        \/ EntrySet(keyOut.a.filteredQuery) # EntrySet(keyOut.b.filteredQuery))
    => keyOut.a.cacheKey # keyOut.b.cacheKey

\* C9: the serialization of a forwarded query does not depend on the order
\* of its properties, and two requests of the same identity, endpoint and
\* path whose query parameters arrive in different orders get the same
\* serialized query and the same cache key.
C9_OrderIndependent ==
    /\ keyOut.kind = "perm" => keyOut.serPermuted = keyOut.ser
    /\ (/\ keyOut.kind = "pair" /\ keyOut.a.ok /\ keyOut.b.ok
        /\ keyIn.a.uid = keyIn.b.uid
        /\ keyIn.a.rq.endpoint = keyIn.b.rq.endpoint
        /\ keyIn.a.rq.params = keyIn.b.rq.params
        /\ EntrySet(keyIn.a.rq.query) = EntrySet(keyIn.b.rq.query))
       => /\ serializeQuery(keyOut.a.filteredQuery) = serializeQuery(keyOut.b.filteredQuery)
          /\ keyOut.a.cacheKey = keyOut.b.cacheKey

C9_Witness ==
    /\ keyOut.kind = "pair" /\ keyOut.a.ok /\ keyOut.b.ok
    /\ keyIn.a.uid = keyIn.b.uid
    /\ keyIn.a.rq.endpoint = "meRepos" /\ keyIn.b.rq.endpoint = "meRepos"
    /\ keyIn.a.rq.query # keyIn.b.rq.query
    /\ Len(keyIn.a.rq.query) = 3
    /\ EntrySet(keyIn.a.rq.query) = EntrySet(keyIn.b.rq.query)
    /\ keyOut.a.cacheKey = keyOut.b.cacheKey

(***************************************************************************)
(* routes/github.ts: the gateway endpoints.  A request is received,        *)
(* authenticateRequest awaits its lookups, then the handler runs without   *)
(* interruption up to its await of githubRequest; the upstream call runs   *)
(* as the Github actions above on call[r]; when it settles the handler     *)
(* sends the response.                                                     *)
(***************************************************************************)
USER_PROFILE_TTL_MS == 30000
DEFAULT_CACHE_TTL_MS == 60000

\* the ttlMs an endpoint passes to cacheSuccess
EndpointTtlProfile(endpoint) == USER_PROFILE_TTL_MS
EndpointTtl(endpoint) ==
    IF endpoint = "me" THEN USER_PROFILE_TTL_MS ELSE DEFAULT_CACHE_TTL_MS

\* The response a handler sends: the status, the X-Cache header (None: not
\* set) and the JSON body {success, data, error: {code, message, details},
\* meta}.  hasData, hasError and hasMeta tell which keys the body has;
\* message and details are None where the body has no such key.
Envelope(status, success, code, message, details, data, meta, xcache) ==
    [status |-> status, success |-> success, code |-> code, data |-> data, xcache |-> xcache,
     details |-> details, message |-> message, meta |-> meta,
     hasData |-> success, hasError |-> ~success, hasMeta |-> meta # None]

\* an error body {success: false, error: {code, message}} whose message is
\* a string literal of the call site
LITERAL_MESSAGE == "literal"
Reply(status, success, code, data, xcache) ==
    Envelope(status, success, code, IF success THEN None ELSE Some(LITERAL_MESSAGE), None,
             data, None, xcache)

\* an error response with body.error.details and a literal message
ErrorReply(status, code, details, xcache) ==
    Envelope(status, FALSE, code, Some(LITERAL_MESSAGE), Some(details), JNull, None, xcache)

\* A Link header is a string: a tuple of characters.
S_next == <<"n", "e", "x", "t">>
S_prev == <<"p", "r", "e", "v">>
S_first == <<"f", "i", "r", "s", "t">>
S_last == <<"l", "a", "s", "t">>
S_relEq == <<"r", "e", "l", "=", "\"">>
Whitespace == {" ", "\t"}

\* the first index from `from` on whose character is (is not) in chars; 0: none
IndexOf(s, from, chars) ==
    IF \E i \in from..Len(s) : s[i] \in chars
    THEN CHOOSE i \in from..Len(s) :
            s[i] \in chars /\ \A j \in from..(i - 1) : s[j] \notin chars
    ELSE 0
IndexNotOf(s, from, chars) ==
    IF \E i \in from..Len(s) : s[i] \notin chars
    THEN CHOOSE i \in from..Len(s) :
            s[i] \notin chars /\ \A j \in from..(i - 1) : s[j] \in chars
    ELSE 0

\* linkHeader.split(',')
RECURSIVE SplitOn(_, _)
SplitOn(s, sep) ==
    IF IndexOf(s, 1, {sep}) = 0 THEN <<s>>
    ELSE <<SubSeq(s, 1, IndexOf(s, 1, {sep}) - 1)>>
         \o SplitOn(SubSeq(s, IndexOf(s, 1, {sep}) + 1, Len(s)), sep)

\* a matched part of a Link header: the two groups of the pattern
LinkPart(url, rel) == [url |-> url, rel |-> rel]

\* /<([^>]+)>;\s*rel="([^"]+)"/ tried at the "<" at index i: close is the
\* first ">" after it, word the first character after ";" and white space,
\* quote the first '"' after rel="
MatchFrom(part, i, close) ==
    IF close < i + 2 \/ close + 1 > Len(part) \/ part[close + 1] # ";" THEN None
    ELSE LET word == IndexNotOf(part, close + 2, Whitespace)
             quote == IndexOf(part, word + 5, {"\""})
         IN  IF word = 0 \/ word + 4 > Len(part) THEN None
             ELSE IF SubSeq(part, word, word + 4) # S_relEq THEN None
             ELSE IF quote < word + 6 THEN None
             ELSE Some(LinkPart(SubSeq(part, i + 1, close - 1),
                                SubSeq(part, word + 5, quote - 1)))
MatchAt(part, i) == MatchFrom(part, i, IndexOf(part, i + 1, {">"}))

\* part.match(...): the leftmost position where the pattern matches
MatchPart(part) ==
    LET starts == {i \in 1..Len(part) : part[i] = "<" /\ MatchAt(part, i) # None}
    IN  IF starts = {} THEN None
        ELSE MatchAt(part, CHOOSE i \in starts : \A j \in starts : i <= j)

\* the parts that match, in order
MatchedParts(linkHeader) ==
    LET matching == SelectSeq(SplitOn(linkHeader, ","), LAMBDA part : MatchPart(part) # None)
    IN  [i \in 1..Len(matching) |-> The(MatchPart(matching[i]))]

NoPagination ==
    [link |-> None, next |-> None, prev |-> None, first |-> None, last |-> None, page |-> None]
\* the url of the last part with the relation, as forEach assigns them
RECURSIVE LastRel(_, _)
LastRel(parts, rel) ==
    IF parts = <<>> THEN None
    ELSE IF parts[Len(parts)].rel = rel THEN Some(parts[Len(parts)].url)
    ELSE LastRel(SubSeq(parts, 1, Len(parts) - 1), rel)
parseLinkHeader(linkHeader) ==
    IF linkHeader = None \/ linkHeader = Some(<<>>) THEN [NoPagination EXCEPT !.link = linkHeader]
    ELSE [link |-> linkHeader,
          next |-> LastRel(MatchedParts(The(linkHeader)), S_next),
          prev |-> LastRel(MatchedParts(The(linkHeader)), S_prev),
          first |-> LastRel(MatchedParts(The(linkHeader)), S_first),
          last |-> LastRel(MatchedParts(The(linkHeader)), S_last),
          page |-> None]

\* a meta that took no rate-limit value from the result it is given
buildResponseMetaWithoutSnapshot(rateLimit, currentPage) ==
    [pagination |-> [parseLinkHeader(rateLimit.link) EXCEPT !.page = currentPage],
     rateLimit |-> [limit |-> None, remaining |-> None, reset |-> None, retryAfter |-> None]]

buildResponseMeta(rateLimit, currentPage) ==
    [pagination |-> [parseLinkHeader(rateLimit.link) EXCEPT !.page = currentPage],
     rateLimit |-> [limit |-> rateLimit.limit, remaining |-> rateLimit.remaining,
                    reset |-> rateLimit.reset, retryAfter |-> rateLimit.retryAfter]]

\* the currentPage an endpoint passes to buildResponseMeta:
\* 1, null, or Number(query.page ?? 1)
CurrentPage(endpoint, query) ==
    IF endpoint = "me" THEN Some(1)
    ELSE IF endpoint = "repo" THEN None
    ELSE IF HasKey(query, S_page) /\ Lookup(query, S_page).t = "number"
         THEN Some(Lookup(query, S_page).n)
    ELSE Some(1)

sendSuccess(statusCode, data, meta, cacheStatus) ==
    Envelope(statusCode, TRUE, "", None, None, data, Some(meta), Some(cacheStatus))

isRateLimitResponse(result) ==
    \/ result.statusCode = 429
    \/ result.statusCode = 403 /\ result.rateLimit.remaining = Some(0)

\* details.message of a parsed error object, where it is a string
ObjectMessage(v) ==
    IF v = "message:Not Found" THEN Some("Not Found")
    ELSE IF v = "message:" THEN Some("")
    ELSE None

\* details of handleGithubError before the rate-limit branch: the parsed
\* error object, or {message} for a string, or undefined
GithubErrorDetails(githubError) ==
    IF githubError.t = "object" THEN Some([object |-> githubError.v])
    ELSE IF githubError.t = "string" THEN Some([message |-> githubError.v])
    ELSE None

\* message before the branches on the status: details.message where it is
\* a string, else the default
GithubErrorMessage(githubError) ==
    IF githubError.t = "object" /\ ObjectMessage(githubError.v) # None
    THEN The(ObjectMessage(githubError.v))
    ELSE IF githubError.t = "string" THEN githubError.v
    ELSE "GitHub request failed"

\* {...(details ?? {}), retryAfterSec}; retryAfterSec is retryAfter ?? null
WithRetryAfterSec(details, retryAfter) ==
    IF details = None THEN [retryAfterSec |-> retryAfter]
    ELSE [retryAfterSec |-> retryAfter] @@ The(details)

\* res.status(status).json({success: false, error: {code, message, details}, meta})
GithubErrorReplyWithoutMeta(status, code, message, details, meta) ==
    Envelope(status, FALSE, code, Some(message), details, JNull, None, Some("MISS"))
GithubErrorReply(status, code, message, details, meta) ==
    Envelope(status, FALSE, code, Some(message), details, JNull, Some(meta), Some("MISS"))

handleGithubError(result) ==
    LET status == IF result.statusCode = 0 THEN 500 ELSE result.statusCode
        details == GithubErrorDetails(result.githubError)
        meta == buildResponseMeta(result.rateLimit, None)
    IN  IF isRateLimitResponse(result)
        THEN GithubErrorReply(429, "GITHUB_RATE_LIMIT", "GitHub rate limit exceeded",
                 Some(WithRetryAfterSec(details, result.rateLimit.retryAfter)), meta)
        ELSE IF status = 404
        THEN GithubErrorReply(status, "NOT_FOUND", "GitHub resource not found", details, meta)
        ELSE IF status = 401
        THEN GithubErrorReply(status, "GITHUB_UNAUTHORIZED",
                 "GitHub rejected the provided token", details, meta)
        ELSE GithubErrorReply(status, "GITHUB_ERROR",
                 GithubErrorMessage(result.githubError), details, meta)

handleUnexpectedError == Reply(500, FALSE, "INTERNAL_SERVER_ERROR", JNull, None)

handleValidationError(issues) == ErrorReply(400, "INVALID_PARAMS", issues, None)

\* the value cacheSuccess stores
CachedSuccess(result, meta) ==
    [statusCode |-> result.statusCode, data |-> result.data, meta |-> meta]

\* the status and data of a success response
Payload(statusCode, data) == [statusCode |-> statusCode, data |-> data]

\* History of the 2xx answers served as MISS.  A new one for a key becomes
\* the latest of that key and replaces an older one with the same payload.
RecordMiss(ms, key, payload, t) ==
    {IF m.key = key THEN [m EXCEPT !.latest = FALSE] ELSE m :
        m \in {x \in ms : ~(x.key = key /\ x.payload = payload)}}
    \cup {[key |-> key, payload |-> payload, doneAt |-> t, latest |-> TRUE]}

\* the MISS answers for the key completed less than ttl before t, with their age
Known(ms, key, ttl, t) ==
    {[payload |-> m.payload, age |-> t - m.doneAt, latest |-> m.latest] :
        m \in {x \in ms : x.key = key /\ t < x.doneAt + ttl}}

\* the period the specification states for an endpoint's cache entries
StatedTtl(endpoint) == IF endpoint = "me" THEN 30000 ELSE 60000

\* the record of a response sent: the reply, how the upstream call ended
\* ("none": no call), the upstream requests issued, whether the cache
\* changed while the response was produced, and what the slot knew
Served(slot, reply, upstream, fetched, cacheChanged) ==
    [kind |-> "sent", endpoint |-> The(slot.rq).endpoint, reply |-> reply,
     upstream |-> upstream, fetched |-> fetched, cacheChanged |-> cacheChanged,
     knownAtArrival |-> slot.knownAtArrival, knownAtLookup |-> slot.knownAtLookup,
     cacheKey |-> slot.cacheKey, afterFailure |-> slot.afterFailure, rq |-> The(slot.rq),
     handled |-> TRUE, auth |-> slot.auth]

\* the response answered an upstream call that failed: the call was
\* rejected, or its result had a status outside 2xx (ok = false)
FailedUpstream(s) ==
    /\ s.kind = "sent"
    /\ s.upstream # "none"
    /\ (s.upstream = "returned" => s.reply.status \notin 200..299)

\* the handler's test of the result: a result that is not ok goes to
\* handleGithubError, an ok one to cacheSuccess and sendSuccess
AnyResultOk(result) == TRUE
ResultOk(result) == result.ok

GatewayUsers == {<<"u", "1">>}
GatewayRequests ==
    {Rq("me", <<>>, <<>>),
     Rq("meRepos", <<>>, <<Entry(S_page, <<"2">>)>>)}
GatewayResponses ==
    {Upstream(200, "[1]", PlainHeaders),
     Upstream(200, "<html>", PlainHeaders),
     Upstream(204, "", PlainHeaders),
     Upstream(404, "{}", PlainHeaders),
     Upstream(500, "<html>", PlainHeaders)}
SuccessResponses ==
    {Upstream(200, "[1]", PlainHeaders),
     Upstream(200, "<html>", PlainHeaders)}
GatewaySamples == {0}

\* a request reaches the router; authenticateRequest starts and awaits.
\* Slots are interchangeable: the request takes the first idle one.
Arrive(r, uid, rq) ==
    /\ gw[r].pc = "idle"
    /\ \A q \in Reqs : q < r => gw[q].pc # "idle"
    /\ arrivals < MaxRequests
    /\ arrivals' = arrivals + 1
    /\ \E key \in {Prepare(rq, uid).cacheKey} :
          gw' = [gw EXCEPT ![r] =
                    [IdleSlot EXCEPT !.pc = "auth", !.uid = Some(uid), !.rq = Some(rq),
                        !.knownAtArrival = Known(misses, key, StatedTtl(rq.endpoint), now),
                        !.afterFailure = (FailedUpstream(served) /\ served.cacheKey = Some(key))]]
    /\ UNCHANGED <<served, misses, clockVars, execVars, cacheVars, keyVars, authVars, judgeVars, loginVars>>

\* next() was called for the request held in slot; the handler runs:
\* validation (400), cache key, serveCacheHit, else githubRequest starts
RunHandler(r, slot0) ==
    /\ \E p \in {Prepare(The(slot0.rq), The(slot0.uid))} :
       \E got \in {CacheGet(store, p.cacheKey, now)} :
       \E slot \in {[slot0 EXCEPT !.cacheKey = Some(p.cacheKey),
                        !.page = CurrentPage(The(slot0.rq).endpoint, p.query),
                        !.knownAtLookup = Known(misses, p.cacheKey,
                                                StatedTtl(The(slot0.rq).endpoint), now)]} :
          IF ~p.ok
          THEN /\ served' = Served(slot0, handleValidationError(p.issues), "none", 0, FALSE)
               /\ gw' = [gw EXCEPT ![r] = IdleSlot]
               /\ UNCHANGED <<store, execVars>>
          ELSE IF got.value # None
          THEN /\ store' = got.store
               /\ served' = Served(slot,
                      sendSuccess(The(got.value).statusCode, The(got.value).data,
                                  The(got.value).meta, "HIT"),
                      "none", 0, FALSE)
               /\ gw' = [gw EXCEPT ![r] = IdleSlot]
               /\ UNCHANGED execVars
          ELSE /\ store' = got.store
               /\ gw' = [gw EXCEPT ![r] = [slot EXCEPT !.pc = "upstream"]]
               /\ call' = [call EXCEPT ![r] = NewCall(DEFAULT_MAX_RETRIES)]
               /\ UNCHANGED <<fetches, log, sleeps, served>>
    /\ UNCHANGED <<arrivals, misses, cacheHist, clockVars, keyVars, judgeVars, loginVars>>

\* authenticateRequest calls next() for a valid session whose stored token
\* needs no refresh
HandleRequest(r) ==
    /\ gw[r].pc = "auth"
    /\ RunHandler(r, gw[r])
    /\ UNCHANGED authVars

\* githubRequest settled: handleGithubError, or cacheSuccess and sendSuccess
\* with MISS, or the catch block with handleUnexpectedError
Complete(r) ==
    /\ gw[r].pc = "upstream"
    /\ call[r].pc \in {"returned", "rejected"}
    /\ IF call[r].pc = "rejected"
       THEN /\ store' = store
            /\ served' = Served(gw[r], handleUnexpectedError, call[r].failure,
                                fetches[r], store' # store)
            /\ misses' = misses
       ELSE \E result \in call[r].result :
            \E meta \in {buildResponseMeta(result.rateLimit, gw[r].page)} :
            IF ResultOk(result)
            THEN /\ store' = CacheSet(store, The(gw[r].cacheKey), CachedSuccess(result, meta),
                                     Some(EndpointTtl(The(gw[r].rq).endpoint)), now)
                 /\ served' = Served(gw[r],
                        sendSuccess(result.statusCode, result.data, meta, "MISS"),
                        "returned", fetches[r], store' # store)
                 /\ misses' = RecordMiss(misses, The(gw[r].cacheKey),
                                         Payload(result.statusCode, result.data), now)
            ELSE /\ store' = store
                 /\ served' = Served(gw[r], handleGithubError(result), "returned",
                                     fetches[r], store' # store)
                 /\ misses' = misses
    /\ gw' = [gw EXCEPT ![r] = IdleSlot]
    /\ call' = [call EXCEPT ![r] = NoCall]
    /\ fetches' = [fetches EXCEPT ![r] = 0]
    /\ log' = [log EXCEPT ![r] = <<>>]
    /\ sleeps' = [sleeps EXCEPT ![r] = <<>>]
    /\ UNCHANGED <<arrivals, cacheHist, clockVars, keyVars, authVars, judgeVars, loginVars>>

Init ==
    /\ InitClock /\ InitNoCalls /\ InitNoCache /\ InitNoKeys /\ InitNoGateway
    /\ InitNoJudgment

\* Spec: the gateway serving one request at a time, against upstream
\* answers of every kind (success, undecodable body, empty body, permanent
\* failure, server error) and transport failures.
Next ==
    \/ \E uid \in GatewayUsers, rq \in GatewayRequests : Arrive(1, uid, rq)
    \/ HandleRequest(1)
    \/ \E resp \in GatewayResponses, rnd \in GatewaySamples : GithubAttempt(1, resp, rnd)
    \/ GithubTransportFail(1)
    \/ GithubSleepDone(1)
    \/ Complete(1)

Spec == Init /\ [][Next]_vars

\* SpecConcurrent: requests overlapping in every slot, against successful
\* upstream answers with two different bodies.
NextConcurrent ==
    \/ \E r \in Reqs, uid \in GatewayUsers, rq \in GatewayRequests : Arrive(r, uid, rq)
    \/ \E r \in Reqs : HandleRequest(r)
    \/ \E r \in Reqs, resp \in SuccessResponses, rnd \in GatewaySamples :
          GithubAttempt(r, resp, rnd)
    \/ \E r \in Reqs : Complete(r)
    \/ \E d \in ClockSteps : Tick(d)

SpecConcurrent == Init /\ [][NextConcurrent]_vars

\* C6: githubRequest never throws for an upstream response, whatever its
\* status and body: a settled call is rejected only by a transport failure,
\* and a returned result carries the status, ok, the raw body and the decoded
\* data of the last response (null when the body is empty or not JSON) with
\* its rate-limit snapshot; the endpoint answers a rejected call with
\* 500 INTERNAL_SERVER_ERROR and leaves the cache as it was.
C6_RejectsOnlyOnTransportFailure ==
    /\ \A r \in Reqs :
          /\ call[r].pc = "rejected" => call[r].failure = "transport"
          /\ (call[r].pc = "returned" /\ Len(log[r]) > 0) =>
                \E res \in call[r].result, e \in {log[r][Len(log[r])]} :
                   /\ res.statusCode = e.status
                   /\ res.ok = (e.status \in 200..299)
                   /\ res.rawBody = (IF e.body = "" THEN None ELSE Some(e.body))
                   /\ res.data = (IF e.body # "" /\ JSONParse(e.body).ok
                                  THEN JSONParse(e.body).val ELSE JNull)
                   /\ DOMAIN res.rateLimit = {"limit", "remaining", "reset", "retryAfter", "link"}
    /\ (served.kind = "sent" /\ served.upstream \notin {"none", "returned"}) =>
          /\ served.reply.status = 500
          /\ served.reply.code = "INTERNAL_SERVER_ERROR"
          /\ ~served.reply.success
          /\ ~served.cacheChanged

C6_Witness ==
    /\ served.kind = "sent"
    /\ served.upstream = "transport"
    /\ served.fetched = 2
    /\ served.reply.status = 500
    /\ \E k \in DOMAIN store : TRUE

\* C10 (as stated): once a request was answered from a 2xx upstream response
\* as a MISS, every request for the same key that arrives later and less than
\* the endpoint's period (30 s for /me, 60 s otherwise) after that answer
\* gets the same status and data, marked HIT, without an upstream request.
C10_Original ==
    served.kind = "sent" =>
        \A k \in served.knownAtArrival :
            /\ served.reply.xcache = Some("HIT")
            /\ served.fetched = 0
            /\ served.reply.status = k.payload.statusCode
            /\ served.reply.data = k.payload.data

\* C10 (amended): a request whose cache lookup happens less than the
\* endpoint's period after a 2xx MISS answer for the same key is answered
\* HIT, without an upstream request, with the status and data of the latest
\* such answer.
C10_HitWhileLatestMissFresh ==
    (served.kind = "sent" /\ served.knownAtLookup # {}) =>
        /\ served.reply.xcache = Some("HIT")
        /\ served.fetched = 0
        /\ \E k \in served.knownAtLookup :
              /\ k.latest
              /\ served.reply.status = k.payload.statusCode
              /\ served.reply.data = k.payload.data

C10_Witness ==
    /\ served.kind = "sent"
    /\ served.endpoint = "meRepos"
    /\ served.reply.xcache = Some("HIT")
    /\ served.fetched = 0
    /\ \E k \in served.knownAtLookup : k.latest /\ k.age >= 30000

ValidationRequests ==
    {Rq("me", <<>>, <<>>),
     Rq("meRepos", <<>>, <<Entry(S_page, <<"2">>)>>),
     Rq("meRepos", <<>>, <<Entry(S_per_page, <<"1", "0", "0">>)>>),
     Rq("meRepos", <<>>, <<Entry(S_page, <<"0">>)>>),
     Rq("meRepos", <<>>, <<Entry(S_page, <<"-", "1", ".", "5">>)>>),
     Rq("meRepos", <<>>, <<Entry(S_page, S_all)>>),
     Rq("meRepos", <<>>, <<Entry(S_per_page, <<"1", "0", "1">>)>>),
     Rq("meRepos", <<>>, <<Entry(S_per_page, <<"0", ".", "5">>)>>),
     Rq("meRepos", <<>>, <<Entry(S_per_page, <<"1", ".", "5">>)>>),
     Rq("meRepos", <<>>, <<Entry(S_type, S_main)>>),
     Rq("meRepos", <<>>, <<Entry(S_type, S_main), Entry(S_per_page, <<"1", "0", "1">>),
                           Entry(S_page, <<"0">>)>>),
     Rq("issues", PathOf(<<"a">>, <<"c">>), <<Entry(S_state, S_main)>>),
     Rq("commits", PathOf(<<"a">>, <<"c">>), <<Entry(S_sha, <<>>)>>)}

NextValidate ==
    \/ \E uid \in GatewayUsers, rq \in ValidationRequests : Arrive(1, uid, rq)
    \/ HandleRequest(1)
    \/ \E resp \in SuccessResponses, rnd \in GatewaySamples : GithubAttempt(1, resp, rnd)
    \/ Complete(1)

SpecValidate == Init /\ [][NextValidate]_vars

SchemaFields(schema) == {schema[i] : i \in 1..Len(schema)}

\* the fields of a request that fail the schema the handler stops at: the
\* path parameters, else the query
FailingFields(rq) ==
    LET inParams == IF HasParams(rq.endpoint)
                    THEN {f.key : f \in {g \in SchemaFields(githubRepoParamsSchema) :
                                              ~ParseField(g, rq.params).ok}}
                    ELSE {}
        inQuery == {f.key : f \in {g \in SchemaFields(QuerySchema(rq.endpoint)) :
                                        ~ParseField(g, rq.query).ok}}
    IN  IF inParams # {} THEN inParams ELSE inQuery

\* the answer to a request with failing fields: 400 INVALID_PARAMS whose
\* details name exactly the failing fields, sent by a step that starts no
\* upstream call, builds no cache key and leaves the cache as it was
RejectedAsInvalid(r) ==
    /\ served'.kind = "sent"
    /\ served'.rq = The(gw[r].rq)
    /\ served'.reply.status = 400
    /\ ~served'.reply.success
    /\ served'.reply.code = "INVALID_PARAMS"
    /\ served'.reply.details # None
    /\ \E items \in served'.reply.details :
          {items[i].path : i \in 1..Len(items)} = FailingFields(The(gw[r].rq))
    /\ served'.upstream = "none" /\ served'.fetched = 0
    /\ served'.cacheKey = None /\ ~served'.cacheChanged
    /\ gw'[r].pc = "idle"
    /\ UNCHANGED <<store, cacheHist, call, fetches, log>>

\* C12 (as stated): a request whose path or query parameters fail the
\* endpoint's schema is answered 400 INVALID_PARAMS with exactly one
\* {path, message} item per failing field, without an upstream request and
\* without reading or writing the cache.
C12_Original ==
    [][\A r \in Reqs :
          (gw[r].pc = "auth" /\ gw'[r] # gw[r] /\ FailingFields(The(gw[r].rq)) # {}) =>
              /\ RejectedAsInvalid(r)
              /\ \E items \in served'.reply.details :
                    Len(items) = Cardinality(FailingFields(The(gw[r].rq)))]_vars

\* C12 (amended): such a request is answered 400 INVALID_PARAMS with at
\* least one {path, message} item for every failing field and none for any
\* other field, without an upstream request and without reading or writing
\* the cache.
C12_InvalidParamsRejected ==
    [][\A r \in Reqs :
          (gw[r].pc = "auth" /\ gw'[r] # gw[r] /\ FailingFields(The(gw[r].rq)) # {}) =>
              RejectedAsInvalid(r)]_vars

C12_Witness ==
    /\ served.kind = "sent"
    /\ served.reply.status = 400
    /\ FailingFields(served.rq) = {S_page, S_per_page, S_type}
    /\ \E items \in served.reply.details : Len(items) = 3
    /\ \E k \in DOMAIN store : TRUE

(***************************************************************************)
(* middleware/auth.ts and lib/githubAppAuth.ts: authenticateRequest with   *)
(* its awaits (findUnique, the refresh call, the update), and the login    *)
(* that upserts the User record.                                           *)
(***************************************************************************)
REFRESH_BUFFER_MS == 60000

Truthy(str) == str # None /\ The(str) # ""

\* a session token as jwt.verify sees it, and an Authorization header
Jwt(verdict, userId) == [verdict |-> verdict, userId |-> userId]
AuthHeader(scheme, token) == [scheme |-> scheme, token |-> token]

extractTokenOfAnyScheme(headerValue) ==
    IF headerValue = None THEN None ELSE The(headerValue).token
extractBearerToken(headerValue) ==
    IF headerValue = None THEN None
    ELSE IF The(headerValue).scheme \notin {"Bearer", "bearer", "BEARER"} THEN None
    ELSE The(headerValue).token

ensureJwtSecret == IF env.jwtSecret THEN Some("secret") ELSE None

resolveGitHubOAuthCredentials == IF env.oauthClient THEN Some("client") ELSE None

\* a verification that threw for nothing
jwtVerifyAnything(token) == [threw |-> FALSE, decoded |-> token.userId]

\* jwt.verify: throws for a bad signature or an expired token
jwtVerify(token) == [threw |-> token.verdict # "ok", decoded |-> token.userId]

isAppJwtPayload(decoded) == decoded # None

decryptPersonalAccessToken(encryptedToken) ==
    IF encryptedToken = "" THEN None ELSE Some(encryptedToken)

tokenNeedsRefreshAnyExpiry(expiresAt, t) == expiresAt # None
tokenNeedsRefreshNoBuffer(expiresAt, t) ==
    IF expiresAt = None THEN FALSE ELSE t >= The(expiresAt)
tokenNeedsRefresh(expiresAt, t) ==
    IF expiresAt = None THEN FALSE
    ELSE t >= The(expiresAt) - REFRESH_BUFFER_MS

\* What the token endpoint answers: fetch rejects, or a response with its
\* ok flag and the JSON payload (error, access_token, refresh_token,
\* expires_in; None: absent)
TokenPayload(error, access_token, refresh_token, expires_in) ==
    [error |-> error, access_token |-> access_token,
     refresh_token |-> refresh_token, expires_in |-> expires_in]
TokenResponse(kind, ok, payload) == [kind |-> kind, ok |-> ok, payload |-> payload]

\* requestGitHubTokens: the token payload, or what it throws
\* ("oauth": GitHubOAuthError with its details, "other": anything else)
requestGitHubTokens(resp, t) ==
    IF resp.kind = "rejected"
    THEN [threw |-> "other", tokens |-> None, details |-> None]
    ELSE IF ~resp.ok
    THEN [threw |-> "oauth", tokens |-> None, details |-> Some([text |-> "response.text()"])]
    ELSE IF resp.payload.error # None \/ ~Truthy(resp.payload.access_token)
    THEN [threw |-> "oauth", tokens |-> None, details |-> Some(resp.payload)]
    ELSE [threw |-> "none",
          tokens |-> Some([accessToken |-> The(resp.payload.access_token),
                           refreshToken |-> resp.payload.refresh_token,
                           tokenExpiresAt |->
                               IF resp.payload.expires_in = None THEN None
                               ELSE Some(t + The(resp.payload.expires_in) * 1000)]),
          details |-> None]

\* a field of a Prisma update: undefined leaves the column as it is
Keep == [set |-> FALSE, val |-> None]
SetTo(v) == [set |-> TRUE, val |-> v]
OrUndefined(v) == IF v = None THEN Keep ELSE SetTo(v)
OrNull(v) == SetTo(v)
ApplyField(old, upd) == IF upd.set THEN upd.val ELSE old
ApplyUpdateNothing(record, upd) == record
ApplyUpdate(record, upd) ==
    UserRecord(ApplyField(record.personalAccessToken, upd.personalAccessToken),
               ApplyField(record.githubRefreshToken, upd.githubRefreshToken),
               ApplyField(record.tokenExpiresAt, upd.tokenExpiresAt))

\* an update that left the access token out of the write
RefreshTokenUpdateWithoutToken(refreshed) ==
    [personalAccessToken |-> Keep,
     tokenExpiresAt |-> OrUndefined(refreshed.tokenExpiresAt),
     githubRefreshToken |-> OrNull(refreshed.refreshToken)]

\* the tokenUpdate the middleware builds from a refresh
RefreshTokenUpdate(refreshed) ==
    [personalAccessToken |-> SetTo(Some(refreshed.accessToken)),
     tokenExpiresAt |-> OrUndefined(refreshed.tokenExpiresAt),
     githubRefreshToken |-> OrNull(refreshed.refreshToken)]

\* the token fields the login upserts
buildTokenUpdateData(tokens) ==
    [personalAccessToken |-> SetTo(Some(tokens.accessToken)),
     tokenExpiresAt |-> OrNull(tokens.tokenExpiresAt),
     githubRefreshToken |-> OrNull(tokens.refreshToken)]

\* respond(res, status, body) of the middleware
respond(status, code) == Reply(status, FALSE, code, JNull, None)
respondWithoutDetails(status, code, details) == respond(status, code)
respondWithDetails(status, code, details) == ErrorReply(status, code, details, None)
SEND_GENERIC_ERROR_AS_401 == respond(401, "SERVER_MISCONFIGURED")
SEND_GENERIC_ERROR == respond(500, "SERVER_MISCONFIGURED")

\* the record of a response the middleware sent itself: next() not called
Refused(slot, reply) ==
    [Served(slot, reply, "none", 0, FALSE) EXCEPT !.handled = FALSE]

\* an error response of the middleware after its first await
Refuse(r, slot, reply) ==
    /\ served' = Refused(slot, reply)
    /\ gw' = [gw EXCEPT ![r] = IdleSlot]
    /\ UNCHANGED <<arrivals, misses, store, cacheHist, execVars, clockVars, keyVars, judgeVars, loginVars>>

\* a request reaches the router: authenticateRequest up to its await of
\* prisma.user.findUnique
Authenticate(r, header, rq) ==
    /\ gw[r].pc = "idle"
    /\ \A q \in Reqs : q < r => gw[q].pc # "idle"
    /\ arrivals < MaxRequests
    /\ arrivals' = arrivals + 1
    /\ \E token \in {extractBearerToken(header)} :
       \E slot0 \in {[IdleSlot EXCEPT !.rq = Some(rq), !.auth.header = header]} :
          IF token = None
          THEN served' = Refused(slot0, respond(401, "NO_TOKEN")) /\ gw' = gw
          ELSE IF ensureJwtSecret = None
          THEN served' = Refused(slot0, SEND_GENERIC_ERROR) /\ gw' = gw
          ELSE IF jwtVerify(The(token)).threw
          THEN /\ served' = Refused(slot0,
                      respondWithDetails(401, "INVALID_TOKEN", The(token).verdict))
               /\ gw' = gw
          ELSE IF ~isAppJwtPayload(jwtVerify(The(token)).decoded)
          THEN served' = Refused(slot0, respond(401, "INVALID_TOKEN")) /\ gw' = gw
          ELSE \E uid \in jwtVerify(The(token)).decoded :
               \E key \in {Prepare(rq, uid).cacheKey} :
                  /\ gw' = [gw EXCEPT ![r] =
                        [slot0 EXCEPT !.pc = "findUser", !.uid = Some(uid),
                            !.knownAtArrival = Known(misses, key, StatedTtl(rq.endpoint), now),
                            !.afterFailure =
                                (FailedUpstream(served) /\ served.cacheKey = Some(key))]]
                  /\ served' = served
    /\ UNCHANGED <<misses, clockVars, execVars, cacheVars, keyVars, authVars, judgeVars, loginVars>>

\* findUnique resolved: the checks on the record, then the refresh call
\* starts, or next() is called and the handler runs
UserLoaded(r) ==
    /\ gw[r].pc = "findUser"
    /\ \E user \in {IF The(gw[r].uid) \in DOMAIN users
                    THEN Some(users[The(gw[r].uid)]) ELSE None} :
       \E slot0 \in {[gw[r] EXCEPT !.auth.found = user, !.auth.loadedAt = now,
                                   !.auth.user = user]} :
          IF user = None
          THEN Refuse(r, slot0, respond(401, "USER_NOT_FOUND"))
          ELSE IF ~Truthy(The(user).personalAccessToken)
          THEN Refuse(r, slot0, respond(403, "GITHUB_TOKEN_MISSING"))
          ELSE IF decryptPersonalAccessToken(The(The(user).personalAccessToken)) = None
          THEN Refuse(r, slot0, respond(403, "GITHUB_TOKEN_INVALID"))
          ELSE IF tokenNeedsRefresh(The(user).tokenExpiresAt, now)
          THEN IF ~Truthy(The(user).githubRefreshToken)
               THEN Refuse(r, slot0, respond(401, "GITHUB_TOKEN_EXPIRED"))
               ELSE IF resolveGitHubOAuthCredentials = None
               THEN Refuse(r, slot0, SEND_GENERIC_ERROR)
               ELSE /\ gw' = [gw EXCEPT ![r] =
                            [slot0 EXCEPT !.pc = "refreshing",
                                          !.auth.refreshCalls = @ + 1]]
                    /\ UNCHANGED <<served, arrivals, misses, store, cacheHist,
                                   execVars, clockVars, keyVars, judgeVars, loginVars>>
          ELSE RunHandler(r, [slot0 EXCEPT !.auth.githubToken =
                      decryptPersonalAccessToken(The(The(user).personalAccessToken))])
    /\ UNCHANGED authVars

\* findUnique rejected: the outer catch block
LookupFails(r) ==
    /\ gw[r].pc = "findUser"
    /\ Refuse(r, [gw[r] EXCEPT !.auth.loadedAt = now, !.auth.threw = "lookup"],
              respondWithDetails(500, "AUTHENTICATION_ERROR", "error.message"))
    /\ UNCHANGED authVars

\* refreshUserTokens settled: the inner catch block, or the update is built
\* and prisma.user.update is called
RefreshSettled(r, resp) ==
    /\ gw[r].pc = "refreshing"
    /\ \E out \in {requestGitHubTokens(resp, now)} :
          IF out.threw = "oauth"
          THEN Refuse(r, [gw[r] EXCEPT !.auth.threw = "oauth"],
                      respondWithDetails(401, "GITHUB_TOKEN_REFRESH_FAILED", The(out.details)))
          ELSE IF out.threw = "other"
          THEN Refuse(r, [gw[r] EXCEPT !.auth.threw = "other"],
                      respondWithDetails(500, "GITHUB_TOKEN_REFRESH_FAILED", "error.message"))
          ELSE /\ gw' = [gw EXCEPT ![r] =
                       [gw[r] EXCEPT !.pc = "updating",
                           !.auth.refreshed = out.tokens,
                           !.auth.githubToken = Some(The(out.tokens).accessToken),
                           !.auth.tokenUpdate = Some(RefreshTokenUpdate(The(out.tokens))),
                           !.auth.writes = @ + 1]]
               /\ UNCHANGED <<served, arrivals, misses, store, cacheHist,
                              execVars, clockVars, keyVars, judgeVars, loginVars>>
    /\ UNCHANGED authVars

\* prisma.user.update resolved: the record is written, the user object is
\* brought up to date, next() is called and the handler runs
UpdateSettled(r) ==
    /\ gw[r].pc = "updating"
    /\ \E uid \in gw[r].uid, refreshed \in gw[r].auth.refreshed,
          upd \in gw[r].auth.tokenUpdate, user \in gw[r].auth.user :
          /\ users' = [users EXCEPT ![uid] = ApplyUpdate(@, upd)]
          /\ RunHandler(r, [gw[r] EXCEPT
                !.auth.user = Some(UserRecord(Some(refreshed.accessToken),
                                              refreshed.refreshToken,
                                              refreshed.tokenExpiresAt)),
                !.auth.persisted = Some(ApplyUpdate(users[uid], upd))])
    /\ env' = env

\* prisma.user.update rejected: the inner catch block
UpdateFails(r) ==
    /\ gw[r].pc = "updating"
    /\ Refuse(r, [gw[r] EXCEPT !.auth.threw = "update"],
              respondWithDetails(500, "GITHUB_TOKEN_REFRESH_FAILED", "error.message"))
    /\ UNCHANGED authVars

\* a login: the code was exchanged for tokens and upsertGitHubUserRecord
\* writes them to the user's record
Login(uid, resp) ==
    /\ uid \in DOMAIN users
    /\ \E out \in {requestGitHubTokens(resp, now)} :
          /\ out.threw = "none"
          /\ users' = [users EXCEPT ![uid] =
                          ApplyUpdate(@, buildTokenUpdateData(The(out.tokens)))]
          /\ users' # users
    /\ UNCHANGED <<env, gw, arrivals, served, misses, clockVars, execVars, cacheVars, keyVars,
                   judgeVars, loginVars>>

(***************************************************************************)
(* SpecAuth: the gateway serving one request at a time through             *)
(* authenticateRequest, for every kind of Authorization header, stored     *)
(* credential, environment and answer of the token endpoint, with the      *)
(* clock advancing and logins in between.                                  *)
(***************************************************************************)
KnownUser == <<"u", "1">>
UnknownUser == <<"u", "9">>

AuthHeaders ==
    {None,
     Some(AuthHeader("Basic", Some(Jwt("ok", Some(KnownUser))))),
     Some(AuthHeader("Bearer", Some(Jwt("expired", Some(KnownUser))))),
     Some(AuthHeader("Bearer", Some(Jwt("ok", None)))),
     Some(AuthHeader("Bearer", Some(Jwt("ok", Some(UnknownUser))))),
     Some(AuthHeader("bearer", Some(Jwt("ok", Some(KnownUser)))))}

\* stored credentials: none, without expiry, expiring just outside the
\* buffer, inside it and in the past, with and without refresh token
StoredCredentials ==
    {UserRecord(None, None, None),
     UserRecord(Some("gho_0"), None, None),
     UserRecord(Some("gho_0"), Some("ghr_0"), Some(160001)),
     UserRecord(Some("gho_0"), None, Some(160001)),
     UserRecord(Some("gho_0"), Some("ghr_0"), Some(130000)),
     UserRecord(Some("gho_0"), None, Some(130000)),
     UserRecord(Some("gho_0"), Some("ghr_0"), Some(90000))}

Envs == {Env(TRUE, TRUE), Env(FALSE, TRUE), Env(TRUE, FALSE)}

RefreshResponses ==
    {TokenResponse("rejected", FALSE, TokenPayload(None, None, None, None)),
     TokenResponse("http", FALSE, TokenPayload(None, None, None, None)),
     TokenResponse("http", TRUE, TokenPayload(Some("bad_refresh_token"), None, None, None)),
     TokenResponse("http", TRUE,
         TokenPayload(None, Some("gho_1"), Some("ghr_1"), Some(28800))),
     TokenResponse("http", TRUE, TokenPayload(None, Some("gho_1"), Some("ghr_1"), None)),
     TokenResponse("http", TRUE, TokenPayload(None, Some("gho_1"), None, Some(28800)))}

LoginResponses ==
    {TokenResponse("http", TRUE, TokenPayload(None, Some("gho_2"), None, None))}

AuthRequests == {Rq("me", <<>>, <<>>)}
AuthClockSteps == {1}
AuthUpstream == {Upstream(200, "[1]", PlainHeaders)}

InitAuth ==
    /\ InitClock /\ InitNoCalls /\ InitNoCache /\ InitNoKeys /\ InitIdle
    /\ InitNoJudgment
    /\ \E c \in StoredCredentials : users = [u \in {KnownUser} |-> c]
    /\ env \in Envs
    /\ InitNoLogin

NextAuth ==
    \/ \E header \in AuthHeaders, rq \in AuthRequests : Authenticate(1, header, rq)
    \/ UserLoaded(1)
    \/ LookupFails(1)
    \/ \E resp \in RefreshResponses : RefreshSettled(1, resp)
    \/ UpdateSettled(1)
    \/ UpdateFails(1)
    \/ \E resp \in AuthUpstream, rnd \in GatewaySamples : GithubAttempt(1, resp, rnd)
    \/ Complete(1)
    \/ \E d \in AuthClockSteps : Tick(d)
    \/ \E resp \in LoginResponses : Login(KnownUser, resp)

SpecAuth == InitAuth /\ [][NextAuth]_vars

(***************************************************************************)
(* What a request brought and what the middleware found, read from the     *)
(* record of its response.                                                 *)
(***************************************************************************)
\* the header carries a bearer token that verifies and names a user
SessionOk(a) ==
    \E h \in a.header : /\ h.scheme \in {"Bearer", "bearer"}
                         /\ \E t \in h.token : t.verdict = "ok" /\ t.userId # None
\* findUnique resolved
Looked(a) == a.loadedAt # 0 /\ a.threw # "lookup"
HasStoredToken(a) == \E u \in a.found : u.personalAccessToken \notin {None, Some("")}
HasRefreshToken(a) == \E u \in a.found : u.githubRefreshToken \notin {None, Some("")}
\* the stored expiry is at most 60 s after the time of the lookup
WithinBuffer(a) ==
    \E u \in a.found : /\ u.tokenExpiresAt # None
                        /\ a.loadedAt >= The(u.tokenExpiresAt) - 60000

\* credential resolution cannot succeed for the request
ResolutionFails(a) ==
    \/ ~SessionOk(a)
    \/ ~env.jwtSecret
    \/ a.threw # "none"
    \/ Looked(a) /\ a.found = None
    \/ a.found # None /\ ~HasStoredToken(a)
    \/ /\ HasStoredToken(a) /\ WithinBuffer(a)
       /\ (~HasRefreshToken(a) \/ ~env.oauthClient)

\* a step that sends the response of a request from inside the middleware
\* or from the handler's first run
AnswerStep ==
    /\ served'.kind = "sent"
    /\ \/ arrivals' = arrivals + 1 /\ gw' = gw
       \/ \E r \in Reqs : /\ gw[r].pc \in {"findUser", "refreshing", "updating"}
                          /\ gw'[r].pc = "idle"

\* C13: when credential resolution fails (missing or unverifiable bearer,
\* missing JWT secret, unknown user, no stored token, expired token without
\* refresh token or without OAuth client credentials, a failed refresh, a
\* failed store access), authenticateRequest answers with an error and does
\* not call next(): the handler does not run, no cache key is built, the
\* cache is neither read nor written and no upstream request is issued.
C13_FailureStopsAtMiddleware ==
    /\ [](served.kind = "sent" /\ ResolutionFails(served.auth) =>
             /\ ~served.handled
             /\ ~served.reply.success
             /\ served.reply.status \in {401, 403, 500}
             /\ served.reply.xcache = None
             /\ served.upstream = "none" /\ served.fetched = 0
             /\ served.cacheKey = None /\ ~served.cacheChanged)
    /\ [][(AnswerStep /\ ResolutionFails(served'.auth)) =>
             /\ UNCHANGED <<store, cacheHist, call, fetches, log, sleeps, misses>>
             /\ \A r \in Reqs : gw'[r].pc = "idle"]_vars

C13_Witness ==
    /\ served.kind = "sent"
    /\ served.auth.threw = "oauth"
    /\ served.auth.refreshCalls = 1
    /\ ~served.handled
    /\ served.reply.status = 401
    /\ \E k \in DOMAIN store : TRUE

\* C14: the status of a credential failure, in the order the middleware
\* checks: no bearer token 401; else a missing JWT secret 500; else a token
\* that does not verify (bad signature, expired) or carries no user 401;
\* a user record without stored GitHub token 403; a stored token within
\* 60 s of its expiry without refresh token 401, and with a refresh token
\* but without OAuth client credentials 500.
C14_FailureStatuses ==
    served.kind = "sent" =>
        LET a == served.auth
            bearer == \E h \in a.header : h.scheme \in {"Bearer", "bearer"} /\ h.token # None
        IN  /\ ~bearer => served.reply.status = 401
            /\ (bearer /\ ~env.jwtSecret) => served.reply.status = 500
            /\ (bearer /\ env.jwtSecret /\ ~SessionOk(a)) => served.reply.status = 401
            /\ (a.found # None /\ ~HasStoredToken(a)) => served.reply.status = 403
            /\ (HasStoredToken(a) /\ WithinBuffer(a) /\ ~HasRefreshToken(a)) =>
                   served.reply.status = 401
            /\ (HasStoredToken(a) /\ WithinBuffer(a) /\ HasRefreshToken(a) /\ ~env.oauthClient) =>
                   served.reply.status = 500

C14_Witness ==
    /\ served.kind = "sent"
    /\ served.reply.status = 500
    /\ served.reply.code = "SERVER_MISCONFIGURED"
    /\ HasStoredToken(served.auth) /\ WithinBuffer(served.auth) /\ HasRefreshToken(served.auth)
    /\ ~env.oauthClient
    /\ arrivals = 2

\* the stored credential of a user has a token and no expiry, or an expiry
\* more than 60 s after t
FreshAt(record, t) ==
    /\ record.personalAccessToken \notin {None, Some("")}
    /\ (record.tokenExpiresAt = None \/ The(record.tokenExpiresAt) > t + 60000)

\* C15: no spurious refresh.  A request of a user whose stored credential
\* has no expiry, or an expiry more than 60 s after the time of the lookup,
\* reaches the handler with the stored access token, unchanged, without a
\* call to the token endpoint and without a write to the User store; the
\* step that ends the middleware leaves the User record as it was, so
\* repeated requests inside the window get the same token.
C15_NoSpuriousRefresh ==
    /\ [](served.kind = "sent" =>
            \A u \in served.auth.found :
                (Looked(served.auth) /\ FreshAt(u, served.auth.loadedAt)) =>
                    /\ served.handled
                    /\ served.auth.githubToken = u.personalAccessToken
                    /\ served.auth.refreshCalls = 0
                    /\ served.auth.writes = 0
                    /\ served.auth.refreshed = None)
    /\ [][\A r \in Reqs :
            (/\ gw[r].pc = "findUser" /\ gw'[r] # gw[r] /\ gw'[r].auth.threw # "lookup"
             /\ The(gw[r].uid) \in DOMAIN users
             /\ FreshAt(users[The(gw[r].uid)], now)) =>
                /\ users' = users
                /\ gw'[r].pc \in {"idle", "upstream"}
                /\ gw'[r].pc = "upstream" =>
                      gw'[r].auth.githubToken = users[The(gw[r].uid)].personalAccessToken]_vars

C15_Witness ==
    /\ served.kind = "sent"
    /\ served.handled
    /\ arrivals = 2
    /\ served.reply.xcache = Some("HIT")
    /\ served.auth.loadedAt = 100000
    /\ served.auth.found = Some(UserRecord(Some("gho_0"), Some("ghr_0"), Some(160001)))
    /\ served.auth.githubToken = Some("gho_0")
    /\ served.auth.refreshCalls = 0
    /\ users[KnownUser] = UserRecord(Some("gho_0"), Some("ghr_0"), Some(160001))

\* C16 (as stated): a request on a credential that is within 60 s of its
\* expiry, or past it, and has a refresh token makes exactly one refresh
\* call; when the refresh succeeded and the request went on, the User record
\* as the request's update left it holds the access token, the refresh token
\* and the token expiry of the refresh response, whatever its shape, and
\* equals the user object attached to the request.
C16_PersistedMatchesRefresh ==
    (/\ served.kind = "sent"
     /\ Looked(served.auth) /\ HasStoredToken(served.auth)
     /\ WithinBuffer(served.auth) /\ HasRefreshToken(served.auth)
     /\ env.oauthClient)
    => /\ served.auth.refreshCalls = 1
       /\ \A refreshed \in served.auth.refreshed :
             served.auth.threw = "none" =>
                /\ served.handled
                /\ served.auth.persisted # None
                /\ \A rec \in served.auth.persisted :
                      /\ rec.personalAccessToken = Some(refreshed.accessToken)
                      /\ rec.githubRefreshToken = refreshed.refreshToken
                      /\ rec.tokenExpiresAt = refreshed.tokenExpiresAt
                      /\ served.auth.user = Some(rec)

\* a stored credential with a token, an expiry at most 60 s after t and no
\* refresh token
TerminalAt(record, t) ==
    /\ record.personalAccessToken \notin {None, Some("")}
    /\ record.tokenExpiresAt # None
    /\ t >= The(record.tokenExpiresAt) - 60000
    /\ record.githubRefreshToken \in {None, Some("")}

\* C17: a credential with an expiry and no refresh token is terminal.  Once
\* now >= tokenExpiresAt - 60 s every request of the user that reaches the
\* credential check is answered 401 GITHUB_TOKEN_EXPIRED without a refresh
\* call and without a store write, and no step of a request changes the
\* record: it stays terminal until a login upserts a new credential.
C17_TerminalWithoutRefreshToken ==
    /\ [](served.kind = "sent" =>
            \A u \in served.auth.found :
                (Looked(served.auth) /\ TerminalAt(u, served.auth.loadedAt)) =>
                    /\ served.reply.status = 401
                    /\ served.reply.code = "GITHUB_TOKEN_EXPIRED"
                    /\ ~served.handled
                    /\ served.auth.refreshCalls = 0
                    /\ served.auth.writes = 0)
    /\ [][\A uid \in DOMAIN users :
            TerminalAt(users[uid], now) =>
                \/ TerminalAt(users'[uid], now') /\ users'[uid] = users[uid]
                \/ /\ gw' = gw /\ served' = served /\ arrivals' = arrivals
                   /\ users'[uid].personalAccessToken = Some("gho_2")]_vars

C17_Witness ==
    /\ served.kind = "sent"
    /\ arrivals = 2
    /\ served.reply.code = "GITHUB_TOKEN_EXPIRED"
    /\ served.auth.found = Some(UserRecord(Some("gho_0"), None, Some(160001)))
    /\ served.auth.loadedAt = 100001
    /\ \E k \in DOMAIN store : TRUE
    /\ users[KnownUser] = UserRecord(Some("gho_0"), None, Some(160001))

\* C18: when the refresh call fails the request fails and the stored
\* credential is untouched.  A GitHubOAuthError (an error response of the
\* token endpoint, or a payload with an error or without access token) is
\* answered 401 GITHUB_TOKEN_REFRESH_FAILED with the provider's detail (the
\* response text or the payload); any other failure is answered 500.  The
\* refusing step leaves the User store as it was, no update is issued, the
\* handler does not run and no upstream request is made.
C18_RefreshFailure ==
    /\ [](served.kind = "sent" /\ served.auth.threw \in {"oauth", "other"} =>
            /\ served.auth.refreshCalls = 1
            /\ served.auth.writes = 0
            /\ ~served.handled
            /\ served.upstream = "none" /\ served.fetched = 0
            /\ ~served.reply.success
            /\ served.auth.threw = "oauth" =>
                  /\ served.reply.status = 401
                  /\ served.reply.code = "GITHUB_TOKEN_REFRESH_FAILED"
                  /\ \E d \in served.reply.details :
                        \/ d = [text |-> "response.text()"]
                        \/ "error" \in DOMAIN d /\ d.error = Some("bad_refresh_token")
            /\ served.auth.threw = "other" => served.reply.status = 500)
    /\ [][\A r \in Reqs :
            (gw[r].pc = "refreshing" /\ gw'[r].pc = "idle") =>
                /\ served'.auth.threw \in {"oauth", "other"}
                /\ UNCHANGED <<users, call, fetches, log, store>>]_vars

C18_Witness ==
    /\ served.kind = "sent"
    /\ served.auth.threw = "oauth"
    /\ served.reply.status = 401
    /\ served.reply.code = "GITHUB_TOKEN_REFRESH_FAILED"
    /\ \E d \in served.reply.details :
          "error" \in DOMAIN d /\ d.error = Some("bad_refresh_token")
    /\ served.auth.found = Some(users[KnownUser])
    /\ HasRefreshToken(served.auth)

\* C19: one request issues at most one update of the token fields of the
\* User record, and issues one exactly when its refresh call succeeded.
\* The User store changes by a step of a request only when that update
\* resolves, once, and the record then holds the new access token; requests
\* change the store in no other step.
C19_OneWritePerRefresh ==
    /\ [](/\ served.kind = "sent" =>
                /\ served.auth.writes <= 1
                /\ served.auth.writes = 1 <=> served.auth.refreshed # None
                /\ served.auth.refreshed # None => served.auth.refreshCalls = 1
          /\ \A r \in Reqs :
                /\ gw[r].auth.writes <= 1
                /\ gw[r].auth.writes = 1 <=> gw[r].auth.refreshed # None)
    /\ [][/\ \A r \in Reqs :
                (/\ gw[r].pc = "updating"
                 /\ \/ gw'[r].pc = "upstream"
                    \/ gw'[r].pc = "idle" /\ served'.auth.threw # "update") =>
                    \E refreshed \in gw[r].auth.refreshed :
                        /\ users'[The(gw[r].uid)].personalAccessToken
                              = Some(refreshed.accessToken)
                        /\ \A u \in DOMAIN users \ {The(gw[r].uid)} : users'[u] = users[u]
          /\ users' # users =>
                \/ \E r \in Reqs : gw[r].pc = "updating" /\ gw'[r].pc # "updating"
                                      /\ gw[r].auth.writes = 1
                \/ gw' = gw /\ served' = served /\ arrivals' = arrivals]_vars

C19_Witness ==
    /\ served.kind = "sent"
    /\ served.handled
    /\ served.auth.refreshCalls = 1
    /\ served.auth.writes = 1
    /\ served.auth.refreshed # None
    /\ served.auth.found = Some(UserRecord(Some("gho_0"), Some("ghr_0"), Some(130000)))
    /\ users[KnownUser].personalAccessToken = Some("gho_1")
    /\ served.auth.githubToken = Some("gho_1")

(***************************************************************************)
(* SpecRateLimit: the gateway serving one request at a time while GitHub   *)
(* answers rate limited (429, or 403 with x-ratelimit-remaining: 0, with   *)
(* and without retry-after and x-ratelimit-reset) or with a plain 403.     *)
(* githubRequest runs with its default of                                  *)
(* DEFAULT_MAX_RETRIES retries, so a rate-limited result is final after     *)
(* DEFAULT_MAX_RETRIES + 1 attempts.                                       *)
(***************************************************************************)
RateLimitRequests == {Rq("me", <<>>, <<>>)}
RateLimitUpstream ==
    LimitedResponses \cup
    {Upstream(403, "{}", PlainHeaders)}

NextRateLimit ==
    \/ \E rq \in RateLimitRequests : Arrive(1, KnownUser, rq)
    \/ HandleRequest(1)
    \/ \E resp \in RateLimitUpstream, rnd \in GatewaySamples : GithubAttempt(1, resp, rnd)
    \/ GithubSleepDone(1)
    \/ Complete(1)

SpecRateLimit == Init /\ [][NextRateLimit]_vars

\* the step in which the handler of slot r answers with the result of
\* githubRequest, and that result is rate limited as the claim defines it
RateLimitedFinal(r, result) ==
    /\ gw[r].pc = "upstream"
    /\ gw'[r].pc = "idle"
    /\ call[r].pc = "returned"
    /\ call[r].result = Some(result)
    /\ \/ result.statusCode = 429
       \/ result.statusCode = 403 /\ result.rateLimit.remaining = Some(0)

\* C20: when the final upstream result is rate limited (429, or 403 with
\* x-ratelimit-remaining equal to 0), the gateway answers 429 with code
\* GITHUB_RATE_LIMIT and a details.retryAfterSec that advises the retry
\* delay (a number of seconds), whatever the upstream status was.
C20_RateLimitAdvisesDelay ==
    [][\A r \in Reqs : \A result \in call[r].result :
          RateLimitedFinal(r, result) =>
              /\ served'.reply.status = 429
              /\ served'.reply.code = "GITHUB_RATE_LIMIT"
              /\ \E d \in served'.reply.details :
                    /\ "retryAfterSec" \in DOMAIN d
                    /\ d.retryAfterSec # None]_vars

(***************************************************************************)
(* SpecErrors: the gateway serving one request at a time while GitHub      *)
(* answers with failures of every class that is not rate limited (404,     *)
(* 401, other 4xx, 304, 5xx) and with a success, with JSON error bodies,   *)
(* bodies that are not JSON and empty bodies; fetch may also reject, the   *)
(* request may carry invalid parameters or no Authorization header.        *)
(***************************************************************************)
ErrorRequests ==
    {Rq("me", <<>>, <<>>),
     Rq("meRepos", <<>>, <<Entry(S_page, <<"2">>)>>),
     Rq("meRepos", <<>>, <<Entry(S_page, <<"0">>)>>)}
ErrorUpstream ==
    {Upstream(404, "{\"message\":\"Not Found\"}", PlainHeaders),
     Upstream(404, "", PlainHeaders),
     Upstream(401, "{}", PlainHeaders),
     Upstream(403, "{\"message\":\"\"}", PlainHeaders),
     Upstream(403, "", [PlainHeaders EXCEPT !.remaining = None]),
     Upstream(422, "<html>", PlainHeaders),
     Upstream(304, "", PlainHeaders),
     Upstream(502, "", PlainHeaders),
     Upstream(200, "[1]", PlainHeaders)}

NextErrors ==
    \/ \E rq \in ErrorRequests : Arrive(1, KnownUser, rq)
    \/ \E rq \in ErrorRequests : Authenticate(1, None, rq)
    \/ HandleRequest(1)
    \/ \E resp \in ErrorUpstream, rnd \in GatewaySamples : GithubAttempt(1, resp, rnd)
    \/ GithubTransportFail(1)
    \/ GithubSleepDone(1)
    \/ Complete(1)

SpecErrors == Init /\ [][NextErrors]_vars

\* the step in which the handler of slot r answers with a failed result of
\* githubRequest that is not rate limited
FailedFinal(r, result) ==
    /\ gw[r].pc = "upstream"
    /\ gw'[r].pc = "idle"
    /\ call[r].pc = "returned"
    /\ call[r].result = Some(result)
    /\ ~result.ok
    /\ ~(\/ result.statusCode = 429
         \/ result.statusCode = 403 /\ result.rateLimit.remaining = Some(0))

\* the code the claim prescribes for an upstream status
StatedCode(status) ==
    IF status = 404 THEN "NOT_FOUND"
    ELSE IF status = 401 THEN "GITHUB_UNAUTHORIZED"
    ELSE "GITHUB_ERROR"

\* C21: a failed upstream result that is not rate limited is answered with
\* the upstream status and the code chosen by the status alone (404:
\* NOT_FOUND, 401: GITHUB_UNAUTHORIZED, else GITHUB_ERROR), in one error
\* response that has a code and a message.
C21_FailureClassified ==
    [][\A r \in Reqs : \A result \in call[r].result :
          FailedFinal(r, result) =>
              /\ served'.kind = "sent"
              /\ served'.reply.status = result.statusCode
              /\ ~served'.reply.success
              /\ served'.reply.hasError
              /\ served'.reply.code = StatedCode(result.statusCode)
              /\ served'.reply.message # None
              /\ served'.reply.message # Some("")]_vars

\* the body has a meta object with pagination and rateLimit
HasFullMeta(reply) ==
    /\ reply.hasMeta
    /\ \E m \in reply.meta :
          /\ DOMAIN m = {"pagination", "rateLimit"}
          /\ DOMAIN m.pagination = {"link", "next", "prev", "first", "last", "page"}
          /\ DOMAIN m.rateLimit = {"limit", "remaining", "reset", "retryAfter"}

\* C22 as stated: every response of a gateway endpoint, success or failure,
\* carries a success flag, exactly one of data or error, and a meta object
\* with pagination and rateLimit.
C22_Original ==
    served.kind = "sent" =>
        /\ served.reply.success \in BOOLEAN
        /\ served.reply.hasData # served.reply.hasError
        /\ HasFullMeta(served.reply)

\* C22: every response carries a success flag and exactly one of data or
\* error; it carries meta, with pagination and rateLimit, exactly when it
\* answers a settled upstream call (a success, served from upstream or from
\* the cache, or an upstream failure).  Validation failures, credential
\* failures and unexpected internal errors carry no meta.
C22_EnvelopeShape ==
    served.kind = "sent" =>
        /\ served.reply.success \in BOOLEAN
        /\ served.reply.hasData # served.reply.hasError
        /\ served.reply.hasData <=> served.reply.success
        /\ served.reply.hasMeta <=> (served.reply.success \/ served.upstream = "returned")
        /\ served.reply.hasMeta => HasFullMeta(served.reply)
        /\ served.reply.code \in {"INVALID_PARAMS", "INTERNAL_SERVER_ERROR", "NO_TOKEN"} =>
              ~served.reply.hasMeta

C22_Witness ==
    /\ served.kind = "sent"
    /\ served.reply.code = "INVALID_PARAMS"
    /\ served.reply.hasError
    /\ ~served.reply.hasMeta
    /\ misses # {}

(***************************************************************************)
(* judgment/githubData.ts: the context normalizer.  An upstream array is a *)
(* sequence of items [id], a file is [filename, patch] where patch is None *)
(* when file.patch is not a string and else Some(the string, a tuple of    *)
(* characters).  A limits object is a record of options (None: key         *)
(* absent).                                                                *)
(***************************************************************************)
DEFAULT_MAX_REVIEWS == 40
DEFAULT_MAX_COMMENTS == 50
DEFAULT_MAX_FILES == 60
DEFAULT_MAX_COMMITS == 50
DEFAULT_MAX_COMMIT_COMMENTS == 30
DEFAULT_PATCH_CHARACTER_LIMIT == 8000

Limits(maxReviews, maxComments, maxFiles, maxCommits, maxCommitComments, patchCharacterLimit) ==
    [maxReviews |-> maxReviews, maxComments |-> maxComments, maxFiles |-> maxFiles,
     maxCommits |-> maxCommits, maxCommitComments |-> maxCommitComments,
     patchCharacterLimit |-> patchCharacterLimit]
NoLimits == Limits(None, None, None, None, None, None)

\* { ...DEFAULT_LIMITS, ...limits }
resolvedLimits(limits) ==
    [maxReviews |-> OrElse(limits.maxReviews, DEFAULT_MAX_REVIEWS),
     maxComments |-> OrElse(limits.maxComments, DEFAULT_MAX_COMMENTS),
     maxFiles |-> OrElse(limits.maxFiles, DEFAULT_MAX_FILES),
     maxCommits |-> OrElse(limits.maxCommits, DEFAULT_MAX_COMMITS),
     maxCommitComments |-> OrElse(limits.maxCommitComments, DEFAULT_MAX_COMMIT_COMMENTS),
     patchCharacterLimit |-> OrElse(limits.patchCharacterLimit, DEFAULT_PATCH_CHARACTER_LIMIT)]

\* Array.prototype.slice(0, end) and String.prototype.slice(0, end)
SliceAll(seq, end) == seq
Slice(seq, end) ==
    IF end >= Len(seq) THEN seq
    ELSE IF end >= 0 THEN SubSeq(seq, 1, end)
    ELSE SubSeq(seq, 1, Max(0, Len(seq) + end))

\* `\n... [truncated]`
TRUNCATION_MARKER ==
    <<"\n", ".", ".", ".", " ", "[", "t", "r", "u", "n", "c", "a", "t", "e", "d", "]">>

File(filename, patch) == [filename |-> filename, patch |-> patch]

\* the patch a file entry gets before the spread: undefined for a patch
\* that is not a string
TruncatePatchSilently(patch, patchLimit) ==
    IF patch = None THEN None ELSE Some(Slice(The(patch), patchLimit))
TruncatePatch(patch, patchLimit) ==
    IF patch = None THEN None
    ELSE IF Len(The(patch)) > patchLimit
         THEN Some(Slice(The(patch), patchLimit) \o TRUNCATION_MARKER)
    ELSE patch

\* ...(patch ? { patch } : {}): the key is left out for undefined and for ''
normalizeFileChange(file, patchLimit) ==
    [filename |-> file.filename,
     patch |-> IF TruncatePatch(file.patch, patchLimit) \in {None, Some(<<>>)} THEN None
               ELSE TruncatePatch(file.patch, patchLimit)]

MapFiles(files, patchLimit) ==
    [i \in 1..Len(files) |-> normalizeFileChange(files[i], patchLimit)]

\* normalizeCommit: files is [] unless commit.files is an array
normalizeCommit(commit, patchLimit, fileLimit) ==
    [sha |-> commit.sha,
     files |-> IF commit.files = None THEN <<>>
               ELSE MapFiles(Slice(The(commit.files), fileLimit), patchLimit)]

\* the contexts the three builders return from the fetched payloads
\* a destructuring that names the second and the fourth result the wrong
\* way round: [pull, comments, files, reviews, commits]
PullRequestContextSwapped(target, got, limits) ==
    [type |-> "pull_request", repository |-> target.repository,
     identifier |-> <<"PR", target.number>>,
     pullRequest |-> got.pull,
     reviews |-> Slice(got.comments, resolvedLimits(limits).maxReviews),
     files |-> MapFiles(Slice(got.files, resolvedLimits(limits).maxFiles),
                        resolvedLimits(limits).patchCharacterLimit),
     comments |-> Slice(got.reviews, resolvedLimits(limits).maxComments),
     commits |-> Slice(got.commits, resolvedLimits(limits).maxCommits)]
PullRequestContext(target, got, limits) ==
    [type |-> "pull_request", repository |-> target.repository,
     identifier |-> <<"PR", target.number>>,
     pullRequest |-> got.pull,
     reviews |-> Slice(got.reviews, resolvedLimits(limits).maxReviews),
     files |-> MapFiles(Slice(got.files, resolvedLimits(limits).maxFiles),
                        resolvedLimits(limits).patchCharacterLimit),
     comments |-> Slice(got.comments, resolvedLimits(limits).maxComments),
     commits |-> Slice(got.commits, resolvedLimits(limits).maxCommits)]
IssueContext(target, got, limits) ==
    [type |-> "issue", repository |-> target.repository,
     identifier |-> <<"ISSUE", target.number>>,
     issue |-> got.issue,
     comments |-> Slice(got.comments, resolvedLimits(limits).maxComments)]
CommitContext(target, got, limits) ==
    [type |-> "commit", repository |-> target.repository,
     identifier |-> <<"COMMIT", Slice(target.sha, 7)>>,
     commit |-> normalizeCommit(got.commit, resolvedLimits(limits).patchCharacterLimit,
                                resolvedLimits(limits).maxFiles),
     comments |-> Slice(got.comments, resolvedLimits(limits).maxCommitComments)]

\* the fetches each builder passes to Promise.all, in its order
ContextFetches(type) ==
    CASE type = "pull_request" -> <<"pull", "reviews", "files", "comments", "commits">>
      [] type = "issue" -> <<"issue", "comments">>
      [] type = "commit" -> <<"commit", "comments">>
FetchNames(type) == {ContextFetches(type)[i] : i \in 1..Len(ContextFetches(type))}

BuildContext(target, got, limits) ==
    CASE target.type = "pull_request" -> PullRequestContext(target, got, limits)
      [] target.type = "issue" -> IssueContext(target, got, limits)
      [] target.type = "commit" -> CommitContext(target, got, limits)

\* a result of githubRequest as fetchGitHubJson sees it: data is None for
\* null, githubError and rawBody as githubRequest builds them
JResult(statusCode, data, githubError, rawBody) ==
    [statusCode |-> statusCode, ok |-> ResponseOk(statusCode), data |-> data,
     githubError |-> githubError, rawBody |-> rawBody]

\* fetchGitHubJson: throws GitHubDataError for !response.ok || !response.data
\* (githubError ?? rawBody as its payload), else returns response.data
fetchGitHubJson(path, response) ==
    IF ~response.ok \/ response.data = None
    THEN [threw |-> TRUE, data |-> None,
          error |-> [name |-> "GitHubDataError", path |-> path,
                     statusCode |-> response.statusCode,
                     githubError |-> IF response.githubError # JUndefined
                                     THEN Some(response.githubError)
                                     ELSE IF response.rawBody # None
                                     THEN Some(JString(The(response.rawBody))) ELSE None]]
    ELSE [threw |-> FALSE, data |-> response.data, error |-> [name |-> "none"]]

(***************************************************************************)
(* judgment/vertexJudgment.ts: the judgment invoker.  vertex holds         *)
(* cachedModel (None: null), VERTEX_PROJECT_ID ?? GOOGLE_PROJECT_ID of     *)
(* process.env (None: unset or empty), and how often the configuration was *)
(* read and a handle was built (history).                                  *)
(***************************************************************************)
\* getModel: the handle returned or VertexConfigError thrown, and the state
\* of the module afterwards
getModelWithoutProject(v) ==
    IF v.cachedModel # None
    THEN [threw |-> FALSE, model |-> v.cachedModel, vertex |-> v]
    ELSE [threw |-> FALSE,
          model |-> Some([project |-> OrElse(v.projectId, "undefined"), serial |-> v.built + 1]),
          vertex |-> [v EXCEPT !.reads = @ + 1, !.built = @ + 1,
                        !.cachedModel = Some([project |-> OrElse(v.projectId, "undefined"),
                                              serial |-> v.built + 1])]]
getModelRebuilding(v) ==
    IF v.projectId = None
    THEN [threw |-> TRUE, model |-> None, vertex |-> [v EXCEPT !.reads = @ + 1]]
    ELSE [threw |-> FALSE,
          model |-> Some([project |-> The(v.projectId), serial |-> v.built + 1]),
          vertex |-> [v EXCEPT !.reads = @ + 1, !.built = @ + 1,
                        !.cachedModel = Some([project |-> The(v.projectId),
                                              serial |-> v.built + 1])]]
getModel(v) ==
    IF v.cachedModel # None
    THEN [threw |-> FALSE, model |-> v.cachedModel, vertex |-> v]
    ELSE IF v.projectId = None
    THEN [threw |-> TRUE, model |-> None, vertex |-> [v EXCEPT !.reads = @ + 1]]
    ELSE [threw |-> FALSE,
          model |-> Some([project |-> The(v.projectId), serial |-> v.built + 1]),
          vertex |-> [v EXCEPT !.reads = @ + 1, !.built = @ + 1,
                        !.cachedModel = Some([project |-> The(v.projectId),
                                              serial |-> v.built + 1])]]

\* A JSON value of the model output: [t, n, s, a, o] with the JavaScript
\* type and, by type, the number (in tenths), the string, the array items
\* or the object (a record of options, None: key absent).
VStr(s) == [t |-> "string", n |-> 0, s |-> s, a |-> <<>>, o |-> None]
VNum(tenths) == [t |-> "number", n |-> tenths, s |-> "", a |-> <<>>, o |-> None]
VArr(items) == [t |-> "array", n |-> 0, s |-> "", a |-> items, o |-> None]
VNull == [t |-> "null", n |-> 0, s |-> "", a |-> <<>>, o |-> None]
VObj(fields) == [t |-> "object", n |-> 0, s |-> "", a |-> <<>>, o |-> Some(fields)]
Fields(json) == The(json.o)

Metadata(repository, targetType, identifier) ==
    VObj([repository |-> repository, targetType |-> targetType, identifier |-> identifier])
VerdictJson(decision, confidence, summary, keyFindings, risks, recommendedActions, metadata) ==
    VObj([decision |-> decision, confidence |-> confidence, summary |-> summary,
          keyFindings |-> keyFindings, risks |-> risks,
          recommendedActions |-> recommendedActions, metadata |-> metadata])

\* zod: z.string().min(1), z.enum, z.number().min(0).max(1), z.array(z.string())
IsNonEmptyString(f) == f # None /\ The(f).t = "string" /\ The(f).s # ""
IsDecision(f) ==
    f # None /\ The(f).t = "string" /\ The(f).s \in {"approve", "request_changes", "comment"}
IsConfidence(f) == f # None /\ The(f).t = "number" /\ The(f).n >= 0 /\ The(f).n <= 10
IsStringArray(f) ==
    f # None /\ The(f).t = "array" /\ \A i \in 1..Len(The(f).a) : The(f).a[i].t = "string"
\* .default([]): undefined takes the default, anything else is checked
IsStringArrayOrDefault(f) == f = None \/ IsStringArray(f)
ArrayOrDefault(f) == IF f = None THEN <<>> ELSE [i \in 1..Len(The(f).a) |-> The(f).a[i].s]
IsMetadata(f) ==
    /\ f # None /\ The(f).t = "object"
    /\ IsNonEmptyString(Fields(The(f)).repository)
    /\ IsNonEmptyString(Fields(The(f)).targetType)
    /\ IsNonEmptyString(Fields(The(f)).identifier)

\* judgmentSchema.parse succeeds
judgmentSchemaAcceptingAnyConfidence(json) ==
    /\ json.t = "object"
    /\ IsDecision(Fields(json).decision)
    /\ Fields(json).confidence # None /\ The(Fields(json).confidence).t = "number"
    /\ IsNonEmptyString(Fields(json).summary)
    /\ IsStringArrayOrDefault(Fields(json).keyFindings)
    /\ IsStringArrayOrDefault(Fields(json).risks)
    /\ IsStringArrayOrDefault(Fields(json).recommendedActions)
    /\ IsMetadata(Fields(json).metadata)
judgmentSchema(json) ==
    /\ json.t = "object"
    /\ IsDecision(Fields(json).decision)
    /\ IsConfidence(Fields(json).confidence)
    /\ IsNonEmptyString(Fields(json).summary)
    /\ IsStringArrayOrDefault(Fields(json).keyFindings)
    /\ IsStringArrayOrDefault(Fields(json).risks)
    /\ IsStringArrayOrDefault(Fields(json).recommendedActions)
    /\ IsMetadata(Fields(json).metadata)

\* a || b on strings
OrIfEmpty(a, b) == IF a = "" THEN b ELSE a

\* the verdict generateJudgment returns for a parsed object
Enriched(json, context) ==
    [decision |-> The(Fields(json).decision).s,
     confidence |-> The(Fields(json).confidence).n,
     summary |-> The(Fields(json).summary).s,
     keyFindings |-> ArrayOrDefault(Fields(json).keyFindings),
     risks |-> ArrayOrDefault(Fields(json).risks),
     recommendedActions |-> ArrayOrDefault(Fields(json).recommendedActions),
     metadata |-> [repository |-> OrIfEmpty(The(Fields(The(Fields(json).metadata)).repository).s,
                                            context.repository),
                   targetType |-> OrIfEmpty(The(Fields(The(Fields(json).metadata)).targetType).s,
                                            context.type),
                   identifier |-> OrIfEmpty(The(Fields(The(Fields(json).metadata)).identifier).s,
                                            context.identifier)]]

\* What model.generateContent settles with: a rejection, or the text of
\* the first candidate after join and trim ("" also for no candidate), and
\* what JSON.parse makes of it (None: SyntaxError).
ModelOutput(rejected, text, json) == [rejected |-> rejected, text |-> text, json |-> json]

\* new VertexInvocationError(message, cause): cause is None when not given
VertexInvocationError(message, cause) ==
    [name |-> "VertexInvocationError", message |-> message, cause |-> cause]

\* generateJudgment after getModel: the verdict, or the error thrown
Judge(output, context) ==
    IF output.rejected
    THEN [threw |-> TRUE, verdict |-> None,
          error |-> VertexInvocationError("Failed to invoke Vertex AI for judgment.", Some("rejection"))]
    ELSE IF output.text = ""
    THEN [threw |-> TRUE, verdict |-> None,
          error |-> VertexInvocationError("Vertex AI returned an empty response.", None)]
    ELSE IF output.json = None
    THEN [threw |-> TRUE, verdict |-> None,
          error |-> VertexInvocationError("Vertex AI response was not valid JSON.", Some("SyntaxError"))]
    ELSE IF ~judgmentSchema(The(output.json))
    THEN [threw |-> TRUE, verdict |-> None,
          error |-> VertexInvocationError("Vertex AI response failed validation against schema.",
                                         Some("ZodError"))]
    ELSE [threw |-> FALSE, verdict |-> Some(Enriched(The(output.json), context)),
          error |-> [name |-> "none"]]

(***************************************************************************)
(* routes/judgment.ts: POST / after authenticateRequest has set            *)
(* req.githubToken.  judge is the request being handled: pc, the validated *)
(* target and limits, the fetches of Promise.all not yet settled (pending) *)
(* and the data of the settled ones (got), the context built, the model    *)
(* output, the response sent, and as history the calls issued (calls),     *)
(* the fetch and response that made the builder throw (failed) and the     *)
(* requests received (seen).                                               *)
(***************************************************************************)
\* judgment requests handled in one run
MaxJudgments == 3

JudgeReply(status, success, code, message, details, data) ==
    [status |-> status, success |-> success, code |-> code, message |-> message,
     details |-> details, data |-> data]

PullTarget(number) == [type |-> "pull_request", repository |-> "acme/widgets", number |-> number]
IssueTarget(number) == [type |-> "issue", repository |-> "acme/widgets", number |-> number]
CommitTarget(sha) == [type |-> "commit", repository |-> "acme/widgets", sha |-> sha]
Body(target, limits) == [target |-> target, limits |-> limits]

\* z.number().int().positive().max(m).optional()
ValidLimit(o, m) == o = None \/ (The(o) >= 1 /\ The(o) <= m)
\* judgmentRequestSchema
judgmentRequestSchema(body) ==
    /\ IF body.target.type = "commit" THEN Len(body.target.sha) >= 7
       ELSE body.target.number >= 1
    /\ \A limits \in body.limits :
          /\ ValidLimit(limits.maxReviews, 100)
          /\ ValidLimit(limits.maxComments, 200)
          /\ ValidLimit(limits.maxFiles, 200)
          /\ ValidLimit(limits.maxCommits, 200)
          /\ ValidLimit(limits.maxCommitComments, 200)
          /\ ValidLimit(limits.patchCharacterLimit, 20000)

\* the path of each fetch of a context
FetchPath(target, name) ==
    LET base == <<"repos", target.repository>>
    IN  CASE target.type = "commit" /\ name = "commit" -> base \o <<"commits", target.sha>>
          [] target.type = "commit" /\ name = "comments" ->
                base \o <<"commits", target.sha, "comments">>
          [] target.type = "issue" /\ name = "issue" ->
                base \o <<"issues", ToString(target.number)>>
          [] target.type = "pull_request" /\ name = "pull" ->
                base \o <<"pulls", ToString(target.number)>>
          [] name = "comments" -> base \o <<"issues", ToString(target.number), "comments">>
          [] OTHER -> base \o <<"pulls", ToString(target.number), name>>

GithubCall(path) == [to |-> "github", path |-> path]
GenerateCall == [to |-> "generateJudgment", path |-> <<>>]
VertexCall == [to |-> "vertex", path |-> <<>>]

\* handleError of the router
VertexConfigError == [name |-> "VertexConfigError"]
TransportError == [name |-> "TypeError"]
handleErrorAsInternal(error) ==
    JudgeReply(500, FALSE, "INTERNAL_ERROR", [text |-> "literal"],
               Some(JString("error.message")), None)
handleError(error) ==
    CASE error.name = "GitHubDataError" ->
            JudgeReply(502, FALSE, "GITHUB_FETCH_FAILED",
                       [text |-> "GitHub request failed for", path |-> error.path],
                       error.githubError, None)
      [] error.name = "VertexConfigError" ->
            JudgeReply(500, FALSE, "VERTEX_CONFIG_ERROR", [text |-> "literal"], None, None)
      [] error.name = "VertexInvocationError" ->
            JudgeReply(502, FALSE, "VERTEX_INVOCATION_FAILED", [text |-> error.message],
                       IF error.cause = None THEN None
                       ELSE Some(JString("cause: " \o The(error.cause))), None)
      [] OTHER -> JudgeReply(500, FALSE, "INTERNAL_ERROR", [text |-> "literal"],
                             Some(JString("error.message")), None)

\* the request arrives: the body is validated; buildContext calls the
\* builder, which issues all its fetches and awaits Promise.all
JudgeArrive(body) ==
    /\ judge.pc \in {"idle", "responded"}
    /\ judge.pending = {}
    /\ judge.seen < MaxJudgments
    /\ IF ~judgmentRequestSchema(body)
       THEN judge' = [NoJudgment EXCEPT !.pc = "responded", !.seen = judge.seen + 1,
                         !.reply = Some(JudgeReply(400, FALSE, "INVALID_REQUEST",
                                                   [text |-> "literal"],
                                                   Some(JString("issues")), None))]
       ELSE judge' = [NoJudgment EXCEPT !.pc = "context", !.seen = judge.seen + 1,
                         !.target = Some(body.target),
                         !.limits = Some(OrElse(body.limits, NoLimits)),
                         !.pending = FetchNames(body.target.type),
                         !.calls = [i \in 1..Len(ContextFetches(body.target.type)) |->
                                       GithubCall(FetchPath(body.target,
                                           ContextFetches(body.target.type)[i]))]]
    /\ UNCHANGED <<vertex, clockVars, execVars, cacheVars, keyVars, gwVars, authVars, loginVars>>

\* githubRequest of one fetch returns response: fetchGitHubJson returns the
\* data or throws.  The first throw rejects Promise.all and the catch block
\* answers; the last data resolves it and the builder returns the context.
\* A fetch settling after the response has no effect.
FetchSettles(name, response) ==
    /\ name \in judge.pending
    /\ \E target \in judge.target, limits \in judge.limits :
       \E out \in {fetchGitHubJson(FetchPath(target, name), response)} :
          IF judge.pc = "responded"
          THEN judge' = [judge EXCEPT !.pending = @ \ {name}]
          ELSE IF out.threw
          THEN judge' = [judge EXCEPT !.pc = "responded", !.pending = @ \ {name},
                            !.got = <<>>, !.reply = Some(handleError(out.error)),
                            !.failed = Some([name |-> name, response |-> response])]
          ELSE \E got \in {[n \in DOMAIN judge.got \cup {name} |->
                               IF n = name THEN The(out.data) ELSE judge.got[n]]} :
               IF judge.pending = {name}
               THEN judge' = [judge EXCEPT !.pc = "built", !.pending = {}, !.got = got,
                                 !.context = Some(BuildContext(target, got, limits))]
               ELSE judge' = [judge EXCEPT !.pending = @ \ {name}, !.got = got]
    /\ UNCHANGED <<vertex, clockVars, execVars, cacheVars, keyVars, gwVars, authVars, loginVars>>

\* githubRequest of one fetch rejects (fetch threw)
FetchRejects(name) ==
    /\ name \in judge.pending
    /\ IF judge.pc = "responded"
       THEN judge' = [judge EXCEPT !.pending = @ \ {name}]
       ELSE judge' = [judge EXCEPT !.pc = "responded", !.pending = @ \ {name},
                         !.got = <<>>, !.reply = Some(handleError(TransportError))]
    /\ UNCHANGED <<vertex, clockVars, execVars, cacheVars, keyVars, gwVars, authVars, loginVars>>

\* generateJudgment(context) up to its await: getModel, then
\* model.generateContent is called; a VertexConfigError goes to the catch
\* block of the router
JudgeGenerate ==
    /\ judge.pc = "built"
    /\ \E m \in {getModel(vertex)} :
          /\ vertex' = m.vertex
          /\ IF m.threw
             THEN judge' = [judge EXCEPT !.pc = "responded",
                               !.calls = Append(@, GenerateCall),
                               !.reply = Some(handleError(VertexConfigError))]
             ELSE judge' = [judge EXCEPT !.pc = "generating",
                               !.calls = Append(Append(@, GenerateCall), VertexCall)]
    /\ UNCHANGED <<clockVars, execVars, cacheVars, keyVars, gwVars, authVars, loginVars>>

\* model.generateContent settles: the verdict is returned and sent with
\* the context, or the error goes to the catch block of the router
ModelSettles(output) ==
    /\ judge.pc = "generating"
    /\ \E context \in judge.context :
       \E j \in {Judge(output, context)} :
          judge' = [judge EXCEPT !.pc = "responded", !.output = Some(output),
                       !.reply = Some(IF j.threw THEN handleError(j.error)
                                      ELSE JudgeReply(200, TRUE, "", [text |-> ""], None,
                                               Some([context |-> context,
                                                     judgment |-> The(j.verdict)])))]
    /\ UNCHANGED <<vertex, clockVars, execVars, cacheVars, keyVars, gwVars, authVars, loginVars>>

\* process.env is changed: the project id is set, replaced or removed
ConfigChanges(projectId) ==
    /\ vertex.projectId # projectId
    /\ vertex' = [vertex EXCEPT !.projectId = projectId]
    /\ UNCHANGED <<judge, clockVars, execVars, cacheVars, keyVars, gwVars, authVars, loginVars>>

(***************************************************************************)
(* SpecJudge: judgment requests one after the other, for the three kinds   *)
(* of target, with and without limits, against upstream results of every   *)
(* kind for each fetch (data, 404, null data, 5xx, rejection) settling in  *)
(* any order, model outputs of every kind, and a project id that may be    *)
(* missing and may change.                                                 *)
(***************************************************************************)
Items(n) == [i \in 1..n |-> [id |-> i]]
SampleFiles ==
    <<File("f1", Some(<<"a", "b", "c">>)),
      File("f2", Some(<<"a">>)),
      File("f3", Some(<<>>)),
      File("f4", None),
      File("f5", Some(<<"a", "b">>)),
      File("f6", Some(<<"a", "b", "c", "d">>))>>
SampleSha == <<"0", "1", "2", "3", "4", "5", "6", "7">>

OkResult(data) == JResult(200, Some(data), JUndefined, Some("json"))
NotFoundResult ==
    JResult(404, Some([message |-> "Not Found"]), JObject("message:Not Found"),
            Some("{\"message\":\"Not Found\"}"))
EmptyResult == JResult(200, None, JUndefined, None)
BadGatewayResult == JResult(502, None, JString("<html>"), Some("<html>"))

JudgeResponses(name) ==
    CASE name \in {"pull", "issue"} -> {OkResult([number |-> 7]), NotFoundResult}
      [] name = "commit" ->
            {OkResult([sha |-> SampleSha, files |-> Some(SampleFiles)]),
             OkResult([sha |-> SampleSha, files |-> None]),
             NotFoundResult, EmptyResult}
      [] name = "reviews" -> {OkResult(Items(3)), BadGatewayResult}
      [] name = "files" -> {OkResult(SampleFiles), NotFoundResult}
      [] name = "comments" -> {OkResult(Items(3)), OkResult(<<>>), NotFoundResult}
      [] name = "commits" -> {OkResult(Items(3)), EmptyResult}
AllFetchNames == {"pull", "issue", "commit", "reviews", "files", "comments", "commits"}

JudgeLimits ==
    {None,
     Some(Limits(Some(1), Some(1), Some(2), Some(1), Some(1), Some(1))),
     Some(Limits(None, Some(3), Some(5), None, Some(200), Some(2)))}
JudgeBodies ==
    {Body(target, limits) :
        target \in {PullTarget(7), IssueTarget(7), CommitTarget(SampleSha)},
        limits \in JudgeLimits}
    \cup {Body(IssueTarget(0), None),
          Body(PullTarget(7), Some(Limits(None, None, Some(0), None, None, None)))}

GoodMetadata == Some(Metadata(Some(VStr("acme/widgets")), Some(VStr("issue")), Some(VStr("ISSUE-7"))))
Findings == Some(VArr(<<VStr("finding")>>))
GoodVerdict ==
    VerdictJson(Some(VStr("approve")), Some(VNum(5)), Some(VStr("fine")),
                Findings, Findings, Findings, GoodMetadata)
Without(verdict, field) == VObj([Fields(verdict) EXCEPT ![field] = None])
With(verdict, field, value) == VObj([Fields(verdict) EXCEPT ![field] = Some(value)])
Json(value) == ModelOutput(FALSE, "json", Some(value))

ModelOutputs ==
    {ModelOutput(TRUE, "", None),
     ModelOutput(FALSE, "", None),
     ModelOutput(FALSE, "I approve", None),
     Json(VNull),
     Json(GoodVerdict),
     Json(With(With(GoodVerdict, "decision", VStr("request_changes")), "confidence", VNum(0))),
     Json(With(With(GoodVerdict, "decision", VStr("comment")), "confidence", VNum(10))),
     Json(With(GoodVerdict, "decision", VStr("reject"))),
     Json(With(GoodVerdict, "confidence", VNum(11))),
     Json(With(GoodVerdict, "confidence", VNum(-1))),
     Json(With(GoodVerdict, "confidence", VStr("high"))),
     Json(With(GoodVerdict, "summary", VStr(""))),
     Json(With(GoodVerdict, "keyFindings", VNull)),
     Json(With(GoodVerdict, "metadata",
               Metadata(Some(VStr("acme/widgets")), Some(VStr("issue")), None)))}
    \cup {Json(Without(GoodVerdict, field)) :
             field \in {"decision", "confidence", "summary", "keyFindings", "risks",
                        "recommendedActions", "metadata"}}

ProjectIds == {None, Some("p1"), Some("p2")}

InitJudge ==
    /\ InitClock /\ InitNoCalls /\ InitNoCache /\ InitNoKeys /\ InitNoGateway
    /\ judge = NoJudgment
    /\ \E projectId \in {None, Some("p1")} :
          vertex = [cachedModel |-> None, projectId |-> projectId, built |-> 0, reads |-> 0]

NextJudge ==
    \/ \E body \in JudgeBodies : JudgeArrive(body)
    \/ \E name \in AllFetchNames : \E response \in JudgeResponses(name) :
          FetchSettles(name, response)
    \/ \E name \in AllFetchNames : FetchRejects(name)
    \/ JudgeGenerate
    \/ \E output \in ModelOutputs : ModelSettles(output)
    \/ \E projectId \in ProjectIds : ConfigChanges(projectId)

SpecJudge == InitJudge /\ [][NextJudge]_vars

\* the calls a request has issued so far, as a set
CallsIssued == {judge.calls[i] : i \in 1..Len(judge.calls)}

\* the payload a GitHubDataError takes from a response: githubError ?? rawBody
ErrorPayload(response) ==
    IF response.githubError # JUndefined THEN Some(response.githubError)
    ELSE IF response.rawBody # None THEN Some(JString(The(response.rawBody))) ELSE None

\* C23 as stated: a context fetch that fails is answered with 502
\* GITHUB_FETCH_FAILED, the response carries the failing path, the upstream
\* status and the upstream payload, and generateJudgment is never called.
C23_Original ==
    \A f \in judge.failed : \A target \in judge.target : \A reply \in judge.reply :
        /\ reply.status = 502
        /\ reply.code = "GITHUB_FETCH_FAILED"
        /\ "path" \in DOMAIN reply.message
        /\ reply.message.path = FetchPath(target, f.name)
        /\ "statusCode" \in DOMAIN reply.message
        /\ reply.message.statusCode = f.response.statusCode
        /\ reply.details = ErrorPayload(f.response)
        /\ GenerateCall \notin CallsIssued

\* C23: generateJudgment and the model are called only for a request whose
\* context was built; a context fetch that settles with a failing response
\* (not ok, or no data) is answered with 502 GITHUB_FETCH_FAILED whose
\* message names the failing path and whose details are the upstream
\* payload, the upstream status stays on the GitHubDataError and is not part
\* of the response; generateJudgment is not called for that request.
C23_FetchFailureStopsJudgment ==
    /\ GenerateCall \in CallsIssued => judge.context # None
    /\ VertexCall \in CallsIssued => judge.context # None
    /\ judge.context # None => judge.pending = {} /\ judge.failed = None
    /\ \A f \in judge.failed : \A target \in judge.target :
          /\ judge.pc = "responded"
          /\ judge.reply = Some(JudgeReply(502, FALSE, "GITHUB_FETCH_FAILED",
                                    [text |-> "GitHub request failed for",
                                     path |-> FetchPath(target, f.name)],
                                    ErrorPayload(f.response), None))
          /\ fetchGitHubJson(FetchPath(target, f.name), f.response).error.statusCode
                = f.response.statusCode
          /\ GenerateCall \notin CallsIssued
          /\ VertexCall \notin CallsIssued

\* the commit fetch of a commit target returned 404 and the request was
\* answered while the comments fetch was still in flight
C23_Witness ==
    /\ judge.failed = Some([name |-> "commit", response |-> NotFoundResult])
    /\ judge.pending = {"comments"}
    /\ \E reply \in judge.reply : reply.status = 502 /\ reply.code = "GITHUB_FETCH_FAILED"
    /\ GenerateCall \notin CallsIssued

\* the limits in force for the request being handled
LimitsInForce == resolvedLimits(The(judge.limits))

\* C24: every collection of a built context is bounded by its configured
\* maximum (reviews by maxReviews, comments by maxComments, or by
\* maxCommitComments for a commit, files by maxFiles, commits by
\* maxCommits), and a pull request with more than maxFiles changed files
\* upstream gets exactly the first maxFiles of them, in upstream order.
C24_CollectionsBounded ==
    \A context \in judge.context :
        /\ context.type = "pull_request" =>
              /\ Len(context.reviews) <= LimitsInForce.maxReviews
              /\ Len(context.comments) <= LimitsInForce.maxComments
              /\ Len(context.files) <= LimitsInForce.maxFiles
              /\ Len(context.commits) <= LimitsInForce.maxCommits
              /\ Len(judge.got.files) > LimitsInForce.maxFiles =>
                    /\ Len(context.files) = LimitsInForce.maxFiles
                    /\ \A i \in 1..LimitsInForce.maxFiles :
                          context.files[i].filename = judge.got.files[i].filename
        /\ context.type = "issue" =>
              Len(context.comments) <= LimitsInForce.maxComments
        /\ context.type = "commit" =>
              /\ Len(context.comments) <= LimitsInForce.maxCommitComments
              /\ Len(context.commit.files) <= LimitsInForce.maxFiles

\* a pull request with six changed files upstream and maxFiles 2; three
\* reviews, comments and commits upstream against a maximum of one each
C24_Witness ==
    \E context \in judge.context :
        /\ context.type = "pull_request"
        /\ Len(judge.got.files) = 6
        /\ LimitsInForce.maxFiles = 2
        /\ Len(context.files) = 2
        /\ Len(judge.got.reviews) = 3 /\ Len(context.reviews) = 1
        /\ Len(judge.got.comments) = 3 /\ Len(context.comments) = 1
        /\ Len(judge.got.commits) = 3 /\ Len(context.commits) = 1

\* the files of the built context next to the upstream files they were made
\* of: slice keeps a prefix, so entry i comes from upstream file i
UpstreamFiles ==
    IF The(judge.target).type = "pull_request" THEN judge.got.files
    ELSE IF The(judge.target).type = "commit" /\ judge.got.commit.files # None
    THEN The(judge.got.commit.files)
    ELSE <<>>
ContextFiles ==
    IF The(judge.context).type = "pull_request" THEN The(judge.context).files
    ELSE IF The(judge.context).type = "commit" THEN The(judge.context).commit.files
    ELSE <<>>
EndsWithMarker(patch) ==
    /\ Len(patch) >= Len(TRUNCATION_MARKER)
    /\ SubSeq(patch, Len(patch) - Len(TRUNCATION_MARKER) + 1, Len(patch)) = TRUNCATION_MARKER

\* C25 as stated: every patch of length <= L is passed unchanged, a longer
\* one becomes its first L characters followed by the truncation marker.
C25_Original ==
    judge.context # None =>
        \A i \in 1..Len(ContextFiles) : \A patch \in UpstreamFiles[i].patch :
            IF Len(patch) <= LimitsInForce.patchCharacterLimit
            THEN ContextFiles[i].patch = Some(patch)
            ELSE \E out \in ContextFiles[i].patch :
                    /\ out = SubSeq(patch, 1, LimitsInForce.patchCharacterLimit)
                                \o TRUNCATION_MARKER
                    /\ Len(out) = LimitsInForce.patchCharacterLimit + Len(TRUNCATION_MARKER)
                    /\ EndsWithMarker(out)

\* C25: for every file of a built context (pull request or commit) and
\* every patchCharacterLimit L, a non-empty patch of length <= L is passed
\* unchanged, a patch longer than L becomes its first L characters followed
\* by the truncation marker (length exactly L + marker length), and an
\* empty patch, like a missing one, leaves the entry without a patch.
C25_PatchTruncation ==
    judge.context # None =>
        \A i \in 1..Len(ContextFiles) :
            /\ UpstreamFiles[i].patch = None => ContextFiles[i].patch = None
            /\ \A patch \in UpstreamFiles[i].patch :
                  IF patch = <<>> THEN ContextFiles[i].patch = None
                  ELSE IF Len(patch) <= LimitsInForce.patchCharacterLimit
                  THEN ContextFiles[i].patch = Some(patch)
                  ELSE \E out \in ContextFiles[i].patch :
                          /\ out = SubSeq(patch, 1, LimitsInForce.patchCharacterLimit)
                                      \o TRUNCATION_MARKER
                          /\ Len(out) = LimitsInForce.patchCharacterLimit
                                           + Len(TRUNCATION_MARKER)
                          /\ EndsWithMarker(out)

\* a commit whose files hold a patch over the limit of 2 (truncated), one
\* of exactly 2 characters (unchanged) and an empty one (left out)
C25_Witness ==
    /\ judge.context # None
    /\ The(judge.context).type = "commit"
    /\ LimitsInForce.patchCharacterLimit = 2
    /\ Len(ContextFiles) = 5
    /\ ContextFiles[1].patch = Some(<<"a", "b">> \o TRUNCATION_MARKER)
    /\ ContextFiles[5].patch = Some(<<"a", "b">>)
    /\ UpstreamFiles[3].patch = Some(<<>>) /\ ContextFiles[3].patch = None

\* the keys VERTEX_RESPONSE_SCHEMA lists as required, and the ones
\* judgmentSchema gives no default
ResponseSchemaRequired ==
    {"decision", "confidence", "summary", "keyFindings", "risks", "recommendedActions",
     "metadata"}
DefaultedLists == {"keyFindings", "risks", "recommendedActions"}
Missing(output) ==
    IF output.json = None \/ The(output.json).t # "object" THEN ResponseSchemaRequired
    ELSE {k \in ResponseSchemaRequired : Fields(The(output.json))[k] = None}
InvocationFailed(reply) ==
    /\ reply.status = 502
    /\ reply.code = "VERTEX_INVOCATION_FAILED"
    /\ ~reply.success
    /\ reply.data = None
VerdictIn(reply) == The(reply.data).judgment

\* C26 as stated: a verdict is returned only for a decision of the three
\* values and a confidence in [0,1], and an output that is empty, not JSON
\* or misses any required field of the verdict shape raises
\* VertexInvocationError, never a defaulted verdict.
C26_Original ==
    \A output \in judge.output : \A reply \in judge.reply :
        /\ reply.success =>
              /\ VerdictIn(reply).decision \in {"approve", "request_changes", "comment"}
              /\ VerdictIn(reply).confidence \in 0..10
        /\ (output.text = "" \/ output.json = None \/ Missing(output) # {}) =>
              InvocationFailed(reply)

\* C26: a verdict is returned only for an output that parses as JSON with a
\* decision of the three values and a confidence in [0,1]; an output that
\* is empty, not JSON, or misses decision, confidence, summary or metadata
\* raises VertexInvocationError (502 VERTEX_INVOCATION_FAILED, no verdict);
\* an output that misses only keyFindings, risks or recommendedActions
\* yields a verdict with the missing lists empty.
C26_VerdictOrInvocationError ==
    \A output \in judge.output : \A reply \in judge.reply :
        /\ reply.success \/ InvocationFailed(reply)
        /\ reply.success =>
              /\ ~output.rejected /\ output.text # "" /\ output.json # None
              /\ VerdictIn(reply).decision \in {"approve", "request_changes", "comment"}
              /\ VerdictIn(reply).decision = The(Fields(The(output.json)).decision).s
              /\ VerdictIn(reply).confidence \in 0..10
              /\ VerdictIn(reply).confidence = The(Fields(The(output.json)).confidence).n
              /\ Missing(output) \subseteq DefaultedLists
              /\ \A k \in Missing(output) : VerdictIn(reply)[k] = <<>>
        /\ (output.rejected \/ output.text = "" \/ output.json = None
              \/ Missing(output) \ DefaultedLists # {}) => InvocationFailed(reply)
        /\ (~output.rejected /\ output.json # None /\ Missing(output) # {}
              /\ Missing(output) \subseteq DefaultedLists) => reply.success

\* the model left out keyFindings and a verdict with no findings was sent
C26_Witness ==
    \E output \in judge.output : \E reply \in judge.reply :
        /\ Missing(output) = {"keyFindings"}
        /\ reply.success
        /\ VerdictIn(reply).keyFindings = <<>>
        /\ VerdictIn(reply).risks = <<"finding">>

\* the GitHub calls buildContext issues for a target
ContextCalls(target) == {GithubCall(FetchPath(target, name)) : name \in FetchNames(target.type)}

\* C27 as stated: a request that fails with the configuration error has
\* made no network call, neither a GitHub fetch nor a model invocation.
C27_Original ==
    \A reply \in judge.reply :
        reply.code = "VERTEX_CONFIG_ERROR" =>
            \A c \in CallsIssued : c.to \notin {"github", "vertex"}

\* C27: generateJudgment is entered only with the context built; when it is
\* entered with no handle cached and no project id configured, the request
\* fails with 500 VERTEX_CONFIG_ERROR and the model is not invoked, but all
\* GitHub fetches of the context have been made by then; otherwise the
\* model is invoked.
C27_ConfigErrorBeforeModel ==
    [][(judge.pc = "built" /\ judge'.pc # "built") =>
          /\ ContextCalls(The(judge.target)) \subseteq CallsIssued
          /\ VertexCall \notin CallsIssued
          /\ IF vertex.cachedModel = None /\ vertex.projectId = None
             THEN /\ judge'.reply = Some(JudgeReply(500, FALSE, "VERTEX_CONFIG_ERROR",
                                             [text |-> "literal"], None, None))
                  /\ judge'.pc = "responded"
                  /\ VertexCall \notin CallsIssued'
                  /\ ContextCalls(The(judge.target)) \subseteq CallsIssued'
             ELSE /\ judge'.pc = "generating"
                  /\ judge'.reply = None
                  /\ VertexCall \in CallsIssued']_vars

\* a pull request was answered with the configuration error after its five
\* GitHub fetches and the call of generateJudgment
C27_Witness ==
    /\ \E reply \in judge.reply : reply.code = "VERTEX_CONFIG_ERROR" /\ reply.status = 500
    /\ \E target \in judge.target : target.type = "pull_request"
    /\ Len(judge.calls) = 6
    /\ judge.context # None
    /\ VertexCall \notin CallsIssued
    /\ vertex.cachedModel = None

\* C28: the model client handle is built at most once per process; once a
\* handle is cached every later getModel returns that same handle without
\* reading the configuration, whatever the configuration has become; a
\* getModel that throws VertexConfigError caches nothing, and the next call
\* reads the configuration again.
C28_HandleMemoized ==
    [][/\ vertex.built <= 1 /\ vertex'.built <= 1
       /\ vertex.cachedModel # None =>
             /\ vertex'.cachedModel = vertex.cachedModel
             /\ vertex'.reads = vertex.reads
             /\ vertex'.built = vertex.built
             /\ (judge.pc = "built" /\ judge'.pc # "built") => judge'.pc = "generating"
       /\ (vertex.cachedModel = None /\ judge.pc = "built" /\ judge'.pc # "built") =>
             /\ vertex'.reads = vertex.reads + 1
             /\ IF vertex.projectId = None
                THEN vertex'.cachedModel = None /\ vertex'.built = vertex.built
                ELSE /\ vertex'.built = vertex.built + 1
                     /\ vertex'.cachedModel =
                           Some([project |-> The(vertex.projectId), serial |-> 1])]_vars

\* a first request failed on the missing project id, the configuration was
\* completed, a later request built the handle for p1, the configuration
\* was then changed to p2 and the next request still uses the handle of p1
C28_Witness ==
    /\ vertex.reads = 2
    /\ vertex.built = 1
    /\ vertex.cachedModel = Some([project |-> "p1", serial |-> 1])
    /\ vertex.projectId = Some("p2")
    /\ judge.pc = "generating"
    /\ judge.seen = 3

(***************************************************************************)
(* routes/auth.ts: POST /github/callback with its awaits (the code         *)
(* exchange, the profile fetch, prisma.user.upsert) and jwt.sign.  The     *)
(* upsert is a read of the row with the githubId followed by a write; the  *)
(* unique index User_githubId_key decides a write that lost the race: the  *)
(* store updates the row that is there now (INSERT .. ON CONFLICT) or      *)
(* rejects the insert with a unique-constraint error.                      *)
(***************************************************************************)
\* expiresIn: '7d' in seconds
SESSION_SECONDS == 604800
MaxLogins == 2          \* login callbacks received in one behaviour

\* Math.floor(Date.now() / 1000)
ClockTimestamp(t) == t \div 1000

\* jwt.sign({ userId }, secret, { expiresIn: '7d' })
jwtSignWithoutExpiry(userId, t) ==
    [userId |-> userId, iat |-> ClockTimestamp(t), exp |-> ClockTimestamp(t) + 2147000000]
jwtSign(userId, t) ==
    [userId |-> userId, iat |-> ClockTimestamp(t), exp |-> ClockTimestamp(t) + SESSION_SECONDS]

\* a session credential as jwt.verify sees it at time t: TokenExpiredError
\* when clockTimestamp >= exp
Presented(credential, t) ==
    Jwt(IF ClockTimestamp(t) >= credential.exp THEN "jwt expired" ELSE "ok",
        Some(credential.userId))

\* the rows of the User store with a githubId
RowsOf(ids, githubId) == {u \in DOMAIN ids : ids[u] = githubId}
\* User_githubId_key: an insert of a githubId that a row already has is
\* a conflict
NoUniqueIndex(ids, githubId) == FALSE
UniqueConflict(ids, githubId) == RowsOf(ids, githubId) # {}

\* the id of a created row (cuid(): fresh)
NewUserId == <<"u", ToString(Cardinality(DOMAIN users) + 1)>>

LoginsStarted == logins[1].seen + logins[2].seen
LoginDone(c, status) == [logins[c] EXCEPT !.pc = "responded", !.status = status]

\* the callback arrives: the credentials of the OAuth client and the code
\* are checked, then exchangeCodeForTokens is called
LoginArrive(c, code) ==
    /\ logins[c].pc \in {"idle", "responded"}
    /\ \A q \in Callbacks : q < c => logins[q].pc \notin {"idle", "responded"}
    /\ LoginsStarted < MaxLogins
    /\ \E slot \in {[NoLogin EXCEPT !.seen = logins[c].seen + 1]} :
          logins' = [logins EXCEPT ![c] =
             IF resolveGitHubOAuthCredentials = None
             THEN [slot EXCEPT !.pc = "responded", !.status = 500]
             ELSE IF ~Truthy(code)
             THEN [slot EXCEPT !.pc = "responded", !.status = 400]
             ELSE [slot EXCEPT !.pc = "exchanging"]]
    /\ UNCHANGED <<githubIds, sessions, clockVars, execVars, cacheVars, keyVars, gwVars,
                   authVars, judgeVars>>

\* exchangeCodeForTokens settled: GitHubOAuthError gives 400, any other
\* error 500, else the profile is fetched with the access token
ExchangeSettles(c, resp) ==
    /\ logins[c].pc = "exchanging"
    /\ \E out \in {requestGitHubTokens(resp, now)} :
          logins' = [logins EXCEPT ![c] =
             IF out.threw = "oauth" THEN LoginDone(c, 400)
             ELSE IF out.threw # "none" THEN LoginDone(c, 500)
             ELSE [@ EXCEPT !.pc = "profile", !.tokens = out.tokens]]
    /\ UNCHANGED <<githubIds, sessions, clockVars, execVars, cacheVars, keyVars, gwVars,
                   authVars, judgeVars>>

\* the fetch of /user settled: a rejection gives 500, a response that is
\* not ok 502, else prisma.user.upsert is called with githubUser.id
ProfileSettles(c, profile) ==
    /\ logins[c].pc = "profile"
    /\ logins' = [logins EXCEPT ![c] =
          IF profile.kind = "rejected" THEN LoginDone(c, 500)
          ELSE IF ~profile.ok THEN LoginDone(c, 502)
          ELSE [@ EXCEPT !.pc = "upsert", !.githubId = Some(profile.id)]]
    /\ UNCHANGED <<githubIds, sessions, clockVars, execVars, cacheVars, keyVars, gwVars,
                   authVars, judgeVars>>

\* the upsert looks for the row where githubId matches
UpsertReads(c) ==
    /\ logins[c].pc = "upsert"
    /\ \E found \in {RowsOf(githubIds, The(logins[c].githubId))} :
          logins' = [logins EXCEPT ![c] = [@ EXCEPT !.pc = "upsertWrite", !.found = found]]
    /\ UNCHANGED <<githubIds, sessions, clockVars, execVars, cacheVars, keyVars, gwVars,
                   authVars, judgeVars>>

\* upsertGitHubUserRecord resolved with the record of user uid: without
\* JWT_SECRET the callback answers 500, else it signs the session credential
\* and answers with it
LoginAnswers(c, uid, created) ==
    IF ~env.jwtSecret
    THEN /\ logins' = [logins EXCEPT ![c] =
               [@ EXCEPT !.pc = "responded", !.status = 500, !.wrote = Some(uid),
                         !.created = created]]
         /\ sessions' = sessions
    ELSE /\ logins' = [logins EXCEPT ![c] =
               [@ EXCEPT !.pc = "responded", !.status = 200, !.wrote = Some(uid),
                         !.created = created, !.appToken = Some(jwtSign(uid, now))]]
         /\ sessions' = sessions \cup {jwtSign(uid, now)}

UpdateRow(c, uid) ==
    /\ users' = [users EXCEPT ![uid] =
                    ApplyUpdate(@, buildTokenUpdateData(The(logins[c].tokens)))]
    /\ githubIds' = githubIds
    /\ LoginAnswers(c, uid, FALSE)

CreateRow(c, uid) ==
    /\ users' = [u \in DOMAIN users \cup {uid} |->
                    IF u = uid
                    THEN ApplyUpdate(UserRecord(None, None, None),
                                     buildTokenUpdateData(The(logins[c].tokens)))
                    ELSE users[u]]
    /\ githubIds' = [u \in DOMAIN githubIds \cup {uid} |->
                        IF u = uid THEN The(logins[c].githubId) ELSE githubIds[u]]
    /\ LoginAnswers(c, uid, TRUE)

\* the upsert writes: the row it found is updated; with no row found it
\* inserts, and an insert that meets a row written in between is turned
\* into an update by the store or rejected (the callback answers 500)
UpsertWrites(c, onConflict) ==
    /\ logins[c].pc = "upsertWrite"
    /\ IF logins[c].found # {}
       THEN \E uid \in logins[c].found : UpdateRow(c, uid)
       ELSE IF ~UniqueConflict(githubIds, The(logins[c].githubId))
       THEN CreateRow(c, NewUserId)
       ELSE IF onConflict = "update"
       THEN \E uid \in RowsOf(githubIds, The(logins[c].githubId)) : UpdateRow(c, uid)
       ELSE /\ logins' = [logins EXCEPT ![c] = LoginDone(c, 500)]
            /\ UNCHANGED <<users, githubIds, sessions>>
    /\ UNCHANGED <<env, clockVars, execVars, cacheVars, keyVars, gwVars, judgeVars>>

\* the upsert rejected for another reason (the store is unreachable)
UpsertFails(c) ==
    /\ logins[c].pc \in {"upsert", "upsertWrite"}
    /\ logins' = [logins EXCEPT ![c] = LoginDone(c, 500)]
    /\ UNCHANGED <<githubIds, sessions, clockVars, execVars, cacheVars, keyVars, gwVars,
                   authVars, judgeVars>>

(***************************************************************************)
(* SpecLogin: up to MaxLogins login callbacks, overlapping, for the GitHub *)
(* account already stored and for a new one, and gateway requests that     *)
(* present the session credentials issued and refresh the stored token,    *)
(* which is about to expire.                                               *)
(***************************************************************************)
Profile(kind, ok, id) == [kind |-> kind, ok |-> ok, id |-> id]
Profiles ==
    {Profile("rejected", FALSE, <<>>), Profile("http", FALSE, <<>>),
     Profile("http", TRUE, GithubIdOf(KnownUser)), Profile("http", TRUE, <<"g", "7">>)}
Codes == {None, Some("code")}
ExchangeResponses ==
    {TokenResponse("rejected", FALSE, TokenPayload(None, None, None, None)),
     TokenResponse("http", TRUE, TokenPayload(Some("bad_verification_code"), None, None, None)),
     TokenResponse("http", TRUE,
         TokenPayload(None, Some("gho_2"), Some("ghr_2"), Some(20)))}
SessionRefreshResponses ==
    {TokenResponse("http", TRUE,
         TokenPayload(None, Some("gho_1"), Some("ghr_1"), Some(28800)))}

InitLogin ==
    /\ InitClock /\ InitNoCalls /\ InitNoCache /\ InitNoKeys /\ InitIdle
    /\ InitNoJudgment
    /\ users = [u \in {KnownUser} |-> UserRecord(Some("gho_0"), Some("ghr_0"), Some(130000))]
    /\ env \in {Env(TRUE, TRUE), Env(FALSE, TRUE)}
    /\ InitNoLogin

NextSessionRequest ==
    \/ \E credential \in sessions, rq \in AuthRequests :
          Authenticate(1, Some(AuthHeader("Bearer", Some(Presented(credential, now)))), rq)
    \/ UserLoaded(1)
    \/ \E resp \in SessionRefreshResponses : RefreshSettled(1, resp)
    \/ UpdateSettled(1)
    \/ \E resp \in AuthUpstream, rnd \in GatewaySamples : GithubAttempt(1, resp, rnd)
    \/ Complete(1)

NextLogin ==
    \/ \E c \in Callbacks, code \in Codes : LoginArrive(c, code)
    \/ \E c \in Callbacks, resp \in ExchangeResponses : ExchangeSettles(c, resp)
    \/ \E c \in Callbacks, profile \in Profiles : ProfileSettles(c, profile)
    \/ \E c \in Callbacks : UpsertReads(c)
    \/ \E c \in Callbacks, onConflict \in {"update", "throw"} : UpsertWrites(c, onConflict)
    \/ \E c \in Callbacks : UpsertFails(c)
    \/ NextSessionRequest

SpecLogin == InitLogin /\ [][NextLogin]_vars

(***************************************************************************)
(* SpecSession: logins one after the other and gateway requests that       *)
(* present the session credentials issued, with token refreshes, while the *)
(* clock passes the seven days to the second.                              *)
(***************************************************************************)
\* under a second, and a second short of seven days
SessionClockSteps == {900, 604799100}
SessionProfiles ==
    {Profile("http", FALSE, <<>>), Profile("http", TRUE, GithubIdOf(KnownUser))}

InitSession ==
    /\ InitClock /\ InitNoCalls /\ InitNoCache /\ InitNoKeys /\ InitIdle
    /\ InitNoJudgment
    /\ users = [u \in {KnownUser} |-> UserRecord(Some("gho_0"), None, None)]
    /\ env \in {Env(TRUE, TRUE), Env(FALSE, TRUE)}
    /\ InitNoLogin

NextSession ==
    \/ \E code \in Codes : LoginArrive(1, code)
    \/ \E resp \in ExchangeResponses : ExchangeSettles(1, resp)
    \/ \E profile \in SessionProfiles : ProfileSettles(1, profile)
    \/ UpsertReads(1)
    \/ UpsertWrites(1, "update")
    \/ UpsertFails(1)
    \/ NextSessionRequest
    \/ \E d \in SessionClockSteps : Tick(d)

SpecSession == InitSession /\ [][NextSession]_vars

\* no two rows of the User store have the same githubId
OnePerGithubId(ids) == \A u, v \in DOMAIN ids : ids[u] = ids[v] => u = v

\* C29: whatever the interleaving of login callbacks (also concurrent ones
\* of the same GitHub account) and token refreshes, the User store holds at
\* most one record per githubId, and no step removes a record or changes
\* the githubId of one.
C29_OneUserPerGithubId ==
    [][/\ OnePerGithubId(githubIds) /\ OnePerGithubId(githubIds')
       /\ DOMAIN users = DOMAIN githubIds /\ DOMAIN users' = DOMAIN githubIds'
       /\ DOMAIN users \subseteq DOMAIN users'
       /\ \A u \in DOMAIN githubIds : githubIds'[u] = githubIds[u]]_vars

\* two overlapping logins of a GitHub account the store did not hold: both
\* upserts found no row, one created it and the other was turned into an
\* update of that row; a token refresh has written to the store as well
C29_Witness ==
    /\ logins[1].githubId = Some(<<"g", "7">>) /\ logins[2].githubId = Some(<<"g", "7">>)
    /\ logins[1].found = {} /\ logins[2].found = {}
    /\ logins[1].status = 200 /\ logins[2].status = 200
    /\ logins[1].wrote = logins[2].wrote
    /\ logins[1].created # logins[2].created
    /\ Cardinality(DOMAIN users) = 2
    /\ served.kind = "sent" /\ served.auth.writes = 1

\* seven days in seconds
SevenDays == 7 * 24 * 60 * 60

\* the Authorization header of the request authenticateRequest has just
\* taken up, when a step did that
HeaderTaken(gwAfter, servedAfter) ==
    IF gwAfter[1].pc = "findUser" THEN gwAfter[1].auth.header ELSE servedAfter.auth.header

\* C30: a session credential is valid for the seven days that follow the
\* login that issued it, counted in seconds of the clock as a JWT does:
\* authenticateRequest accepts it while fewer than 604800 seconds have
\* passed since its iat and answers 401 INVALID_TOKEN from then on; a
\* credential comes into being only when a login callback answers 200,
\* with iat the time of that answer and exp seven days later, and no other
\* step (gateway request, token refresh, failed login) issues or changes
\* one.
C30_SessionLastsSevenDays ==
    [][/\ arrivals' = arrivals + 1 =>
             \A credential \in sessions :
                HeaderTaken(gw', served')
                      = Some(AuthHeader("Bearer", Some(Presented(credential, now)))) =>
                   IF ClockTimestamp(now) - credential.iat >= SevenDays
                   THEN /\ gw' = gw
                        /\ ~served'.handled
                        /\ served'.reply.status = 401
                        /\ served'.reply.code = "INVALID_TOKEN"
                   ELSE /\ gw'[1].pc = "findUser"
                        /\ gw'[1].uid = Some(credential.userId)
                        /\ served' = served
       /\ sessions \subseteq sessions'
       /\ \A credential \in sessions' : credential.exp = credential.iat + SevenDays
       /\ sessions' # sessions =>
             \E c \in Callbacks : \E credential \in logins'[c].appToken :
                /\ logins[c].pc = "upsertWrite"
                /\ logins'[c].status = 200
                /\ credential.iat = ClockTimestamp(now)
                /\ credential.userId \in logins'[c].wrote
                /\ sessions' = sessions \cup {credential}
                /\ arrivals' = arrivals /\ gw' = gw]_vars

\* a credential was accepted a second short of seven days after its login,
\* the request was served after a token refresh, and 900 ms later, seven
\* days to the second after the login, the same credential is refused
C30_Witness ==
    /\ \E credential \in sessions : ClockTimestamp(now) - credential.iat = SevenDays
    /\ Cardinality(sessions) = 1
    /\ arrivals = 2
    /\ misses # {}
    /\ served.kind = "sent" /\ ~served.handled
    /\ served.reply.status = 401 /\ served.reply.code = "INVALID_TOKEN"

(***************************************************************************)
(* SpecForward: a request and the same request carrying one parameter the  *)
(* schema of its endpoint does not declare, at any position of req.query.  *)
(***************************************************************************)
S_foo == <<"f", "o", "o">>
S_access_token == <<"a", "c", "c", "e", "s", "s", "_", "t", "o", "k", "e", "n">>

\* parameter names a client may add; some are declared by another endpoint
ExtraKeys == {S_foo, S_access_token, S_sha, S_labels, S_base}
ExtraValues == {<<"1">>, S_main}

InsertAt(seq, i, e) == SubSeq(seq, 1, i) \o <<e>> \o SubSeq(seq, i + 1, Len(seq))

InitForward ==
    /\ InitClock /\ InitNoCalls /\ InitNoCache /\ InitNoGateway
    /\ InitNoJudgment
    /\ \E uid \in UserIds, rq \in KeyRequests, k \in ExtraKeys, v \in ExtraValues :
          /\ k \notin SchemaKeys(QuerySchema(rq.endpoint))
          /\ \E i \in 0..Len(rq.query) :
                keyIn = [a |-> [uid |-> uid, rq |-> rq],
                         b |-> [uid |-> uid,
                                rq |-> Rq(rq.endpoint, rq.params,
                                          InsertAt(rq.query, i, Entry(k, v)))]]
    /\ keyOut = [kind |-> "none"]

NextForward == ComparePair

SpecForward == InitForward /\ [][NextForward]_vars

\* the undeclared parameter of the second request of the pair
ExtraOf(pair) ==
    {e \in EntrySet(pair.b.rq.query) : e \notin EntrySet(pair.a.rq.query)}

\* C31: only parameters declared in the endpoint's schema reach upstream:
\* the keys of the query passed to githubRequest are keys of the endpoint's
\* schema, and an undeclared inbound parameter changes neither the outcome of
\* validation, nor the forwarded query, nor the cache key.
C31_OnlyDeclaredForwarded ==
    keyOut.kind = "pair" =>
       /\ \A e \in EntrySet(keyOut.b.filteredQuery) :
             e.key \in SchemaKeys(QuerySchema(keyIn.b.rq.endpoint))
       /\ keyOut.b.ok = keyOut.a.ok
       /\ keyOut.b.filteredQuery = keyOut.a.filteredQuery
       /\ keyOut.b.cacheKey = keyOut.a.cacheKey

\* a valid pulls request with a forwarded parameter, sent again with an
\* undeclared `sha`
C31_Witness ==
    /\ keyOut.kind = "pair"
    /\ keyIn.b.rq.endpoint = "pulls"
    /\ \E e \in ExtraOf(keyIn) : e.key = S_sha
    /\ keyOut.b.ok
    /\ keyOut.b.filteredQuery # <<>>

(***************************************************************************)
(* Concurrent requests for one cache key (SpecConcurrent).                 *)
(***************************************************************************)
\* request r is at the point where its upstream call returned a 2xx result:
\* the entry cacheSuccess writes for it
EntryWrittenBy(r) ==
    {CacheSet(<<>>, The(gw[r].cacheKey),
              CachedSuccess(result, buildResponseMeta(result.rateLimit, gw[r].page)),
              Some(EndpointTtl(The(gw[r].rq).endpoint)), now)[The(gw[r].cacheKey)] :
        result \in {x \in call[r].result : ResultOk(x)}}

Writing(r) ==
    /\ gw[r].pc = "upstream"
    /\ call[r].pc = "returned"
    /\ gw'[r].pc = "idle"
    /\ EntryWrittenBy(r) # {}

\* every entry of the cache carries the status and data of the latest 2xx
\* answer obtained for its key
EntriesFromLatestMiss ==
    \A k \in DOMAIN store :
        \E m \in misses :
            /\ m.key = k
            /\ m.latest
            /\ m.payload = Payload(store[k].value.statusCode, store[k].value.data)

\* an entry appears or changes only as the whole {statusCode, data, meta} of
\* the 2xx result of a request for that key, and the writer's entry replaces
\* whatever was there
WholeWrites ==
    /\ \A k \in DOMAIN store' :
          (k \notin DOMAIN store \/ store'[k] # store[k]) =>
              \E r \in Reqs : /\ Writing(r)
                              /\ gw[r].cacheKey = Some(k)
                              /\ store'[k] \in EntryWrittenBy(r)
    /\ \A r \in Reqs :
          Writing(r) => /\ The(gw[r].cacheKey) \in DOMAIN store'
                        /\ store'[The(gw[r].cacheKey)] \in EntryWrittenBy(r)

\* a HIT answers with the whole entry found at the lookup
WholeReads ==
    (served' # served /\ served'.reply.xcache = Some("HIT")) =>
        /\ The(served'.cacheKey) \in DOMAIN store
        /\ served'.reply =
              sendSuccess(store[The(served'.cacheKey)].value.statusCode,
                          store[The(served'.cacheKey)].value.data,
                          store[The(served'.cacheKey)].value.meta, "HIT")

\* C32: under any interleaving of concurrent gateway requests for the same
\* cache key, every entry ever present in the cache is the {status, data,
\* meta} of a 2xx upstream response obtained for that key, the entry left is
\* the one of the last writer, and a request that reads the cache gets a
\* whole entry.
C32_LastWriterWins ==
    /\ []EntriesFromLatestMiss
    /\ [][WholeWrites /\ WholeReads]_vars

\* two requests for one key both missed and both wrote: the second answer
\* replaced an entry, still fresh, that did not exist at its own lookup and
\* carried other data
C32_Witness ==
    /\ served.kind = "sent"
    /\ served.reply.xcache = Some("MISS")
    /\ served.cacheChanged
    /\ served.knownAtLookup = {}
    /\ \E m \in misses :
          /\ Some(m.key) = served.cacheKey
          /\ ~m.latest
          /\ now < m.doneAt + StatedTtl(served.endpoint)
          /\ m.payload # Payload(served.reply.status, served.reply.data)
    /\ \A r \in Reqs : gw[r].pc = "idle"

(***************************************************************************)
(* SpecSnapshot: parseRateLimit on one response: its status, its           *)
(* x-ratelimit-reset and retry-after headers, and the clock.               *)
(***************************************************************************)
SnapshotStatuses == {200, 403, 429}
SnapshotClocks == {99001, 100000, 100001}
ResetHeaders ==
    {None, Hdr(<<>>), Hdr(<<"0">>), Hdr(<<"9", "9">>), Hdr(<<"1", "0", "0">>),
     Hdr(<<"1", "0", "1">>), Hdr(<<"1", "6", "0">>), Hdr(<<"s", "o", "o", "n">>)}
RetryAfterHeaders ==
    {None, Hdr(<<>>), Hdr(<<"0">>), Hdr(<<"2">>), Hdr(<<"1", "2", "0">>),
     Hdr(<<"-", "5">>), Hdr(<<"s", "o", "o", "n">>)}

InitSnapshot ==
    /\ now \in SnapshotClocks /\ ticks = 0
    /\ InitNoCalls /\ InitNoCache /\ InitNoGateway /\ InitNoJudgment
    /\ \E status \in SnapshotStatuses, reset \in ResetHeaders,
          retryAfter \in RetryAfterHeaders :
          keyIn = [status |-> status,
                   headers |-> [PlainHeaders EXCEPT !.reset = reset,
                                                    !.retryAfter = retryAfter]]
    /\ keyOut = [kind |-> "none"]

\* one attempt's response headers are parsed at the time the clock shows
TakeSnapshot ==
    /\ keyOut.kind = "none"
    /\ keyOut' = [kind |-> "snapshot",
                  rateLimit |-> parseRateLimit(keyIn.headers, keyIn.status, now)]
    /\ UNCHANGED <<keyIn, clockVars, execVars, cacheVars, gwVars, authVars, judgeVars, loginVars>>

NextSnapshot == TakeSnapshot

SpecSnapshot == InitSnapshot /\ [][NextSnapshot]_vars

\* the header is the decimal text of n
HeaderIs(header, n) == header = Hdr(NatChars(n))
HeaderNumbers == 0..200

\* the whole seconds from the clock to the reset timestamp, none if passed
SecondsUntil(reset, t, d) ==
    /\ d >= 0
    /\ d * 1000 <= Max(0, reset * 1000 - t)
    /\ Max(0, reset * 1000 - t) < (d + 1) * 1000

\* C33 (as stated): the retry-after of a snapshot is the integer of a
\* retry-after header that carries a positive integer; for a 429 response
\* without retry-after header but with a reset timestamp it is
\* max(0, reset - now) in seconds; it is never negative.
C33_Original ==
    keyOut.kind = "snapshot" =>
       /\ \A n \in HeaderNumbers \ {0} :
             HeaderIs(keyIn.headers.retryAfter, n) => keyOut.rateLimit.retryAfter = Some(n)
       /\ \A n \in HeaderNumbers :
             (keyIn.status = 429 /\ keyIn.headers.retryAfter = None
                  /\ HeaderIs(keyIn.headers.reset, n)) =>
                \E d \in keyOut.rateLimit.retryAfter : SecondsUntil(n, now, d)
       /\ \A d \in keyOut.rateLimit.retryAfter : d >= 0

\* C33 (amended): a retry-after header with a positive integer gives that
\* integer; a 429 response without retry-after header and with a reset
\* timestamp other than 0 gives the whole seconds from now to the reset,
\* 0 when the reset has passed; with a reset header of 0 and no retry-after
\* header there is no value; the value is negative only when the
\* retry-after header itself carries a negative integer, which is kept.
C33_RetryAfterSnapshot ==
    keyOut.kind = "snapshot" =>
       /\ \A n \in HeaderNumbers \ {0} :
             HeaderIs(keyIn.headers.retryAfter, n) => keyOut.rateLimit.retryAfter = Some(n)
       /\ \A n \in HeaderNumbers \ {0} :
             (keyIn.status = 429
                  /\ keyIn.headers.retryAfter \in
                        {None, Hdr(<<>>), Hdr(<<"0">>), Hdr(<<"s", "o", "o", "n">>)}
                  /\ HeaderIs(keyIn.headers.reset, n)) =>
                \E d \in keyOut.rateLimit.retryAfter : SecondsUntil(n, now, d)
       /\ (keyIn.headers.retryAfter = None /\ HeaderIs(keyIn.headers.reset, 0)) =>
             keyOut.rateLimit.retryAfter = None
       /\ \A d \in keyOut.rateLimit.retryAfter :
             d < 0 => \E n \in HeaderNumbers \ {0} :
                          /\ keyIn.headers.retryAfter = Hdr(<<"-">> \o NatChars(n))
                          /\ d = -n

\* a 429 without retry-after header whose reset lies in the past: 0
C33_Witness ==
    /\ keyOut.kind = "snapshot"
    /\ keyIn.status = 429
    /\ keyIn.headers.retryAfter = None
    /\ HeaderIs(keyIn.headers.reset, 99)
    /\ keyOut.rateLimit.retryAfter = Some(0)

(***************************************************************************)
(* SpecLatest: gateway requests whose upstream call takes several          *)
(* attempts, every response with its own body and rate-limit headers.      *)
(***************************************************************************)
LatestUpstream ==
    {Upstream(500, "<html>", [PlainHeaders EXCEPT !.remaining = Hdr(<<"9">>)]),
     Upstream(503, "[2]", [PlainHeaders EXCEPT !.remaining = Hdr(<<"8">>),
                                               !.reset = Hdr(<<"1", "0", "4">>)]),
     Upstream(429, "{}", [PlainHeaders EXCEPT !.remaining = Hdr(<<"0">>)]),
     Upstream(200, "[1]", [PlainHeaders EXCEPT !.remaining = Hdr(<<"3">>)]),
     Upstream(200, "", [PlainHeaders EXCEPT !.limit = None, !.remaining = None,
                                            !.reset = None]),
     Upstream(404, "{}", [PlainHeaders EXCEPT !.remaining = Hdr(<<"2">>)])}

NextLatest ==
    \/ \E rq \in RateLimitRequests : Arrive(1, KnownUser, rq)
    \/ HandleRequest(1)
    \/ \E resp \in LatestUpstream, rnd \in GatewaySamples : GithubAttempt(1, resp, rnd)
    \/ GithubSleepDone(1)
    \/ Complete(1)

SpecLatest == Init /\ [][NextLatest]_vars

LastAttempt(r) == log[r][Len(log[r])]

\* the result githubRequest returned is, field by field, what the response
\* of its last attempt gives
ResultOfLastAttempt ==
    \A r \in Reqs :
        (call[r].pc = "returned" /\ log[r] # <<>>) =>
            \E result \in call[r].result :
                /\ result.statusCode = LastAttempt(r).status
                /\ result.rawBody = (IF LastAttempt(r).body = "" THEN None
                                     ELSE Some(LastAttempt(r).body))
                /\ result.data = JsonParseBody(LastAttempt(r).body).data
                /\ result.rateLimit = LastAttempt(r).rateLimit

\* the MISS answer's meta.rateLimit is the snapshot of the last attempt
MissMetaOfLastAttempt ==
    \A r \in Reqs :
        (gw[r].pc = "upstream" /\ gw'[r].pc = "idle" /\ call[r].pc = "returned"
             /\ served'.reply.xcache = Some("MISS")) =>
            \E meta \in served'.reply.meta :
                /\ meta.rateLimit.limit = LastAttempt(r).rateLimit.limit
                /\ meta.rateLimit.remaining = LastAttempt(r).rateLimit.remaining
                /\ meta.rateLimit.reset = LastAttempt(r).rateLimit.reset
                /\ meta.rateLimit.retryAfter = LastAttempt(r).rateLimit.retryAfter

\* C34: the result githubRequest returns (status, data, raw body, rate-limit
\* snapshot) is entirely that of the last attempt made, nothing is carried
\* over from an earlier attempt, and the gateway's meta.rateLimit on a MISS
\* is the snapshot of that last response.
C34_ResultOfLastAttempt ==
    /\ []ResultOfLastAttempt
    /\ [][MissMetaOfLastAttempt]_vars

\* a MISS answered after a retried call: the 200 came at the third attempt
\* or later, after responses with other bodies and other quotas
C34_Witness ==
    /\ served.kind = "sent"
    /\ served.reply.xcache = Some("MISS")
    /\ served.fetched >= 3
    /\ served.reply.data = JNull
    /\ \E meta \in served.reply.meta : meta.rateLimit.remaining = None

(***************************************************************************)
(* SpecLinks: list requests with a page, answered by a 200 whose Link      *)
(* header is written from a list of entries <url>; rel="rel".              *)
(***************************************************************************)
U_page1 == <<"u", "?", "p", "=", "1">>
U_page3 == <<"u", "?", "p", "=", "3">>
U_page9 == <<"u", "?", "p", "=", "9">>
U_labels == <<"u", "?", "l", "=", "a", ",", "b">>
S_up == <<"u", "p">>

\* the text of one entry and of a header of several entries
LinkEntryText(e) == <<"<">> \o e.url \o <<">", ";", " ">> \o S_relEq \o e.rel \o <<"\"">>
RECURSIVE LinkHeaderOf(_)
LinkHeaderOf(entries) ==
    IF entries = <<>> THEN <<>>
    ELSE LinkEntryText(Head(entries))
         \o (IF Len(entries) > 1 THEN <<",", " ">> ELSE <<>>) \o LinkHeaderOf(Tail(entries))

\* no relation occurs twice in a list
LinkEntryLists ==
    {<<>>,
     <<LinkPart(U_page3, S_next)>>,
     <<LinkPart(U_page1, S_prev), LinkPart(U_page3, S_next),
       LinkPart(U_page1, S_first), LinkPart(U_page9, S_last)>>,
     <<LinkPart(U_page3, S_next), LinkPart(U_page9, S_up)>>,
     <<LinkPart(U_labels, S_next)>>,
     <<LinkPart(U_page1, S_first), LinkPart(U_labels, S_last)>>}

LinkResponses ==
    {Upstream(200, "[1]", [PlainHeaders EXCEPT !.link = Hdr(LinkHeaderOf(entries))]) :
        entries \in LinkEntryLists}
    \cup {Upstream(200, "[1]", PlainHeaders)}

LinkRequests ==
    {Rq("meRepos", <<>>, <<Entry(S_type, S_owner), Entry(S_page, <<"2">>)>>),
     Rq("issues", PathOf(<<"a">>, <<"c">>),
        <<Entry(S_labels, S_bug), Entry(S_page, <<"3">>)>>)}

NextLinks ==
    \/ \E rq \in LinkRequests : Arrive(1, KnownUser, rq)
    \/ HandleRequest(1)
    \/ \E resp \in LinkResponses, rnd \in GatewaySamples : GithubAttempt(1, resp, rnd)
    \/ Complete(1)

SpecLinks == Init /\ [][NextLinks]_vars

PaginationRels == {S_next, S_prev, S_first, S_last}
RelOf(pagination, rel) ==
    CASE rel = S_next -> pagination.next [] rel = S_prev -> pagination.prev
      [] rel = S_first -> pagination.first [] rel = S_last -> pagination.last

\* the urls the entries give for a relation
UrlsOf(entries, rel) == {entries[i].url : i \in {j \in 1..Len(entries) : entries[j].rel = rel}}

\* the pagination of the answer is that of the entries of the Link header
PaginationOf(pagination, entries) ==
    \A rel \in PaginationRels : RelOf(pagination, rel) = UrlsOf(entries, rel)

RequestedPage(rq, p) == HasKey(rq.query, S_page) /\ Lookup(rq.query, S_page) = NatChars(p)

\* C35: a list endpoint requested with page = p and answered from an
\* upstream 2xx whose Link header has entries with rel next/prev/first/last
\* carries in meta.pagination the URL of each relation present, null for
\* each absent one, and page = p; entries with another rel are ignored.
C35_PaginationFromLinkHeader ==
    (served.kind = "sent" /\ served.reply.success) =>
        \E meta \in served.reply.meta :
            /\ \A p \in 1..9 : RequestedPage(served.rq, p) => meta.pagination.page = Some(p)
            /\ \A entries \in LinkEntryLists :
                  meta.pagination.link = Hdr(LinkHeaderOf(entries)) =>
                      PaginationOf(meta.pagination, entries)

\* the same for the Link headers none of whose URLs contains a comma
C35_CommaFreeLinks ==
    (served.kind = "sent" /\ served.reply.success) =>
        \E meta \in served.reply.meta :
            /\ \A p \in 1..9 : RequestedPage(served.rq, p) => meta.pagination.page = Some(p)
            /\ \A entries \in LinkEntryLists :
                  (/\ meta.pagination.link = Hdr(LinkHeaderOf(entries))
                   /\ \A i \in 1..Len(entries) : IndexOf(entries[i].url, 1, {","}) = 0) =>
                      PaginationOf(meta.pagination, entries)

(***************************************************************************)
(* SpecExecLive: one call of githubRequest whose transport calls all       *)
(* answer and whose sleeps all end: a pending fetch or timer is eventually *)
(* settled by the event loop, so the next step of the call is taken.       *)
(***************************************************************************)
NextExecLive ==
    \/ \E resp \in ExecResponses, rnd \in RandomSamples : GithubAttempt(1, resp, rnd)
    \/ GithubSleepDone(1)
    \/ GithubFallThrough(1)

SpecExecLive == InitExec /\ [][NextExecLive]_vars /\ WF_vars(NextExecLive)

\* what is left of the loop: the passes not yet begun, counted twice, plus
\* one while a pass is at its fetch rather than at its sleep
LoopVariant(c) ==
    IF c.pc \in {"returned", "rejected", "none"} THEN 0
    ELSE 2 * (c.maxRetries + 1 - c.attempt) + (IF c.pc = "loop" THEN 1 ELSE 0)

\* C36: githubRequest terminates.  Provided every transport call answers and
\* every sleep ends, for every maxRetries and every sequence of responses
\* the call eventually returns a result; every step of the call brings the
\* loop nearer to its end, so repeated rate-limit or 5xx responses cannot
\* keep it running.
C36_Terminates ==
    /\ <>(call[1].pc = "returned" /\ call[1].result # None)
    /\ [][call'[1] # call[1] =>
             /\ LoopVariant(call[1]) > LoopVariant(call'[1])
             /\ LoopVariant(call'[1]) >= 0]_vars

\* a call that met a rate-limit or 5xx response at every attempt and
\* returned after maxRetries + 1 of them
C36_Witness ==
    /\ call[1].pc = "returned"
    /\ call[1].maxRetries = MaxRetriesOpt
    /\ Len(log[1]) = MaxRetriesOpt + 1
    /\ \A i \in 1..Len(log[1]) : EntryLimited(log[1][i]) \/ EntryServerError(log[1][i])
    /\ \E i \in 1..Len(log[1]) : EntryLimited(log[1][i])
    /\ \E i \in 1..Len(log[1]) : EntryServerError(log[1][i])

(***************************************************************************)
(* SpecOrder: context building whose fetches all succeed and complete in   *)
(* any order.  Upstream answers each path with data that names the path    *)
(* and carries the serial number of the completion.                        *)
(***************************************************************************)
Stamp(path, serial) == [from |-> path, serial |-> serial]
StampedData(target, name, serial) ==
    IF name = "files"
    THEN <<File(FetchPath(target, name), Some(<<"a">>)),
           File(FetchPath(target, name), None)>>
    ELSE IF name \in {"pull", "issue"} THEN Stamp(FetchPath(target, name), serial)
    ELSE <<Stamp(FetchPath(target, name), serial), Stamp(FetchPath(target, name), serial)>>

OrderBodies == {Body(PullTarget(7), None), Body(IssueTarget(7), None)}

NextOrder ==
    \/ \E body \in OrderBodies : JudgeArrive(body)
    \/ \E name \in AllFetchNames, target \in judge.target :
          FetchSettles(name,
              OkResult(StampedData(target, name, Cardinality(DOMAIN judge.got) + 1)))
    \/ JudgeGenerate
    \/ \E output \in {Json(GoodVerdict), ModelOutput(TRUE, "", None)} : ModelSettles(output)

SpecOrder == InitJudge /\ [][NextOrder]_vars

\* the upstream paths of a pull request and of an issue
PullPath(rest) == <<"repos", "acme/widgets", "pulls", "7">> \o rest
IssuePath(rest) == <<"repos", "acme/widgets", "issues", "7">> \o rest
AllFrom(items, path) == \A i \in 1..Len(items) : items[i].from = path

\* C37: in context building each fetched result is bound to the fetch that
\* produced it, whatever the order in which the concurrent fetches complete:
\* the pull request, reviews, files, comments and commits of a context come
\* from their own upstream paths (and so do the issue and its comments).
C37_ResultsBoundToFetch ==
    \A c \in judge.context :
        /\ c.type = "pull_request" =>
              /\ c.pullRequest.from = PullPath(<<>>)
              /\ c.reviews # <<>> /\ AllFrom(c.reviews, PullPath(<<"reviews">>))
              /\ c.files # <<>>
              /\ \A i \in 1..Len(c.files) : c.files[i].filename = PullPath(<<"files">>)
              /\ c.comments # <<>> /\ AllFrom(c.comments, IssuePath(<<"comments">>))
              /\ c.commits # <<>> /\ AllFrom(c.commits, PullPath(<<"commits">>))
        /\ c.type = "issue" =>
              /\ c.issue.from = IssuePath(<<>>)
              /\ c.comments # <<>> /\ AllFrom(c.comments, IssuePath(<<"comments">>))

\* a pull-request context whose fetches completed in the reverse of the
\* order they were issued in: commits first, the pull request last
C37_Witness ==
    \E c \in judge.context :
        /\ c.type = "pull_request"
        /\ c.commits[1].serial = 1
        /\ c.comments[1].serial = 2
        /\ c.reviews[1].serial = 4
        /\ c.pullRequest.serial = 5

(***************************************************************************)
(* SpecGate: requests with valid and invalid parameters, with good and     *)
(* failing credentials, against a cache that earlier requests filled.      *)
(***************************************************************************)
GateHeaders ==
    {None,
     Some(AuthHeader("Bearer", Some(Jwt("expired", Some(KnownUser))))),
     Some(AuthHeader("Bearer", Some(Jwt("ok", Some(UnknownUser))))),
     Some(AuthHeader("Bearer", Some(Jwt("ok", Some(KnownUser)))))}

GateCredentials ==
    {UserRecord(None, None, None),
     UserRecord(Some("gho_0"), None, None),
     UserRecord(Some("gho_0"), None, Some(160001)),
     UserRecord(Some("gho_0"), Some("ghr_0"), Some(160001))}

GateRequests ==
    {Rq("me", <<>>, <<>>),
     Rq("meRepos", <<>>, <<Entry(S_page, <<"0">>)>>),
     Rq("meRepos", <<>>, <<Entry(S_page, <<"2">>)>>)}

GateRefreshResponses ==
    {TokenResponse("http", TRUE, TokenPayload(Some("bad_refresh_token"), None, None, None)),
     TokenResponse("http", TRUE,
         TokenPayload(None, Some("gho_1"), Some("ghr_1"), Some(28800)))}

InitGate ==
    /\ InitClock /\ InitNoCalls /\ InitNoCache /\ InitNoKeys /\ InitIdle
    /\ InitNoJudgment
    /\ \E c \in GateCredentials : users = [u \in {KnownUser} |-> c]
    /\ env = Env(TRUE, TRUE)
    /\ InitNoLogin

NextGate ==
    \/ \E header \in GateHeaders, rq \in GateRequests : Authenticate(1, header, rq)
    \/ UserLoaded(1)
    \/ LookupFails(1)
    \/ \E resp \in GateRefreshResponses : RefreshSettled(1, resp)
    \/ UpdateSettled(1)
    \/ UpdateFails(1)
    \/ \E resp \in AuthUpstream, rnd \in GatewaySamples : GithubAttempt(1, resp, rnd)
    \/ Complete(1)
    \/ \E d \in AuthClockSteps : Tick(d)

SpecGate == InitGate /\ [][NextGate]_vars

\* the parameters of the request do not pass the schema of its endpoint
InvalidParams(rq) == ~Prepare(rq, KnownUser).ok

\* C38: on every gateway request credential resolution runs to completion
\* before parameter validation and before the cache lookup.  A request with
\* invalid parameters and a failing credential gets the credential error,
\* not INVALID_PARAMS; INVALID_PARAMS and cached data are sent only to a
\* request whose credential resolved in that same request.
C38_CredentialBeforeValidationAndCache ==
    served.kind = "sent" =>
       /\ (ResolutionFails(served.auth) /\ InvalidParams(served.rq)) =>
             /\ ~served.handled
             /\ ~served.reply.success
             /\ served.reply.code # "INVALID_PARAMS"
             /\ served.reply.status \in {401, 403, 500}
       /\ (served.reply.code = "INVALID_PARAMS" \/ served.reply.xcache = Some("HIT")) =>
             /\ served.handled
             /\ ~ResolutionFails(served.auth)
             /\ Looked(served.auth)
             /\ served.auth.githubToken # None

\* invalid parameters and a stored token that has come within the buffer
\* without refresh token, while the cache holds the user's data
C38_Witness ==
    /\ served.kind = "sent"
    /\ InvalidParams(served.rq)
    /\ SessionOk(served.auth)
    /\ served.reply.code = "GITHUB_TOKEN_EXPIRED"
    /\ ~served.handled
    /\ DOMAIN store # {}

(***************************************************************************)
(* The refresh branch of authenticateRequest and the handler (SpecAuth).   *)
(***************************************************************************)
\* the handler of request r is entered in this step: githubRequest starts,
\* or the handler answers at once (validation error, cache hit)
HandlerEntered(r) ==
    /\ gw[r].pc \notin {"upstream", "idle"}
    /\ \/ gw'[r].pc = "upstream"
       \/ gw'[r].pc = "idle" /\ served'.handled /\ served' # served

\* the token the handler passes to githubRequest: req.githubToken
TokenUsed(a) == a.githubToken

AfterRefreshInvariant ==
    /\ (served.kind = "sent" /\ served.auth.refreshed # None) =>
          /\ served.handled =>
                /\ served.auth.threw = "none"
                /\ \E rec \in served.auth.persisted :
                      rec.personalAccessToken = TokenUsed(served.auth)
          /\ served.auth.threw = "update" =>
                /\ ~served.handled
                /\ served.fetched = 0 /\ served.upstream = "none"
                /\ served.cacheKey = None
                /\ ~served.reply.success
    /\ \A r \in Reqs :
          (gw[r].pc = "upstream" /\ gw[r].auth.refreshed # None) =>
              \E rec \in gw[r].auth.persisted :
                  rec.personalAccessToken = TokenUsed(gw[r].auth)

AfterRefreshStep ==
    \A r \in Reqs :
        /\ (HandlerEntered(r) /\ gw[r].auth.refreshed # None) =>
              /\ gw[r].pc = "updating"
              /\ users'[The(gw[r].uid)].personalAccessToken = TokenUsed(gw[r].auth)
              /\ \E refreshed \in gw[r].auth.refreshed :
                    TokenUsed(gw[r].auth) = Some(refreshed.accessToken)
        /\ (HandlerEntered(r) /\ gw[r].pc = "refreshing") => FALSE
        /\ (gw[r].pc = "updating" /\ gw'[r].pc = "idle" /\ ~served'.handled) =>
              /\ served'.auth.threw = "update"
              /\ UNCHANGED <<users, call, fetches, store>>

\* C39: after a refresh the handler is entered only once the store write
\* has completed, and the token it uses for upstream calls is the access
\* token that write persisted; if the store write fails after the provider
\* issued new tokens, the handler is not entered and no upstream request is
\* made.
C39_HandlerAfterStoreWrite ==
    /\ []AfterRefreshInvariant
    /\ [][AfterRefreshStep]_vars

\* a refreshed request that went upstream with the token just written
C39_Witness ==
    /\ served.kind = "sent"
    /\ served.handled
    /\ served.fetched = 1
    /\ served.reply.xcache = Some("MISS")
    /\ \E refreshed \in served.auth.refreshed, rec \in served.auth.persisted :
          /\ refreshed.accessToken = "gho_1"
          /\ rec.personalAccessToken = Some("gho_1")
          /\ TokenUsed(served.auth) = Some("gho_1")
          /\ served.auth.found # Some(rec)

(***************************************************************************)
(* SpecRefreshRace: two requests of one user in flight at the same time    *)
(* while the stored token is inside the 60-second buffer.  Every await of  *)
(* the middleware is a point where the other request may run.              *)
(***************************************************************************)
RaceHeader == Some(AuthHeader("Bearer", Some(Jwt("ok", Some(KnownUser)))))
RaceCredentials ==
    {UserRecord(Some("gho_0"), Some("ghr_0"), Some(130000)),
     UserRecord(Some("gho_0"), Some("ghr_0"), Some(90000))}
RaceRefreshResponses ==
    {TokenResponse("http", TRUE, TokenPayload(Some("bad_refresh_token"), None, None, None)),
     TokenResponse("http", TRUE,
         TokenPayload(None, Some("gho_1"), Some("ghr_1"), Some(28800)))}

InitRefreshRace ==
    /\ InitClock /\ InitNoCalls /\ InitNoCache /\ InitNoKeys /\ InitIdle
    /\ InitNoJudgment
    /\ \E c \in RaceCredentials : users = [u \in {KnownUser} |-> c]
    /\ env = Env(TRUE, TRUE)
    /\ InitNoLogin

NextRefreshRace ==
    \/ \E r \in Reqs, rq \in AuthRequests : Authenticate(r, RaceHeader, rq)
    \/ \E r \in Reqs : UserLoaded(r)
    \/ \E r \in Reqs, resp \in RaceRefreshResponses : RefreshSettled(r, resp)
    \/ \E r \in Reqs : UpdateSettled(r)
    \/ \E r \in Reqs : UpdateFails(r)
    \/ \E r \in Reqs, resp \in AuthUpstream, rnd \in GatewaySamples :
          GithubAttempt(r, resp, rnd)
    \/ \E r \in Reqs : Complete(r)

SpecRefreshRace == InitRefreshRace /\ [][NextRefreshRace]_vars

\* request r has called refreshUserTokens; the refresh token it submitted is
\* the one of the record it loaded
Submitted(r) == gw[r].auth.refreshCalls >= 1
SubmittedToken(r) == {u.githubRefreshToken : u \in gw[r].auth.found}

\* C40: when two gateway requests of the same user run concurrently while
\* the credential is inside the 60-second buffer, the refresh token stored
\* at that moment is submitted to the OAuth token endpoint by at most one of
\* them: no two requests in flight have submitted the same refresh token.
C40_RefreshTokenRedeemedOnce ==
    \A r1, r2 \in Reqs :
        (r1 # r2 /\ Submitted(r1) /\ Submitted(r2)
             /\ gw[r1].uid = gw[r2].uid) =>
            SubmittedToken(r1) # SubmittedToken(r2)

====
